---- MODULE Spec2Model ----
(***************************************************************************)
(* Model of the Immortal HTTP library (crate immortal_http): the session   *)
(* manager (src/session.rs), the response constructor (src/response.rs),   *)
(* the middleware pipeline (src/middleware.rs), the router (src/router.rs) *)
(* and the per-request driver (src/lib.rs, process_buffer).                *)
(*                                                                         *)
(* Instants are natural numbers; `now` is the monotonic clock.  A Uuid is  *)
(* a number, nil is 0.  A string that carries a Uuid is the one-element    *)
(* sequence holding it; any other sequence does not parse as a Uuid.       *)
(***************************************************************************)
EXTENDS Integers, Sequences, FiniteSets, TLC

\* ---------------------------------------------------------------- bounds
MaxUuid == 1
MaxTime == 1
MaxMiddleware == 2
MaxThreads == 2
MaxTasks == 2
MaxLine == 7
MaxHeaders == 2
MaxQuery == 5
MaxBody == 2
MaxBuffer == 6

\* ------------------------------------------------------------ value sets
nil == 0
Uuid == 0..MaxUuid
\* uuid::Uuid::new_v4 never yields the nil id (the version bits are set)
GeneratedUuid == Uuid \ {nil}
Keys == {"a"}
Values == {"", "v"}
Methods == {"GET", "HEAD"}
Documents == {"/", "/login"}
\* the methods of requests: Request::new takes any token as it is written
RequestMethods == Methods \cup {"get"}
\* the functions a program registers as middleware, routes or fallback
Handlers == {"h1", "h2"}

\* the threads that share the Arc<SessionManager>
Threads == 1..MaxThreads

None == <<>>
Some(x) == <<x>>

\* Uuid::to_string and str::parse::<Uuid>
to_string(id) == <<id>>
Junk == <<nil, nil>>
parse_uuid(text) == IF Len(text) = 1 THEN Some(text[1]) ELSE None

\* The (session_duration, inactive_duration, prune_rate) arguments of
\* SessionManager::new, in clock ticks: one with the idle TTL below the
\* prune rate and the absolute TTL, one with the idle TTL the shortest and
\* a sweep at every tick, one with the absolute TTL the shortest.
Configs ==
    { [session_duration |-> 2, inactive_duration |-> 1, prune_rate |-> 2],
      [session_duration |-> 2, inactive_duration |-> 1, prune_rate |-> 1],
      [session_duration |-> 1, inactive_duration |-> 2, prune_rate |-> 1] }

VARIABLES
    session_manager,  \* SessionManager: is_enabled, store, durations, last_prune
    now,              \* Instant::now()
    threading,        \* the build's `threading` feature
    call,             \* the last call of the API: its name, arguments, result
    middleware,       \* Middleware.middleware: Vec<Handler>
    router,           \* Router: fallback, routes
    request,          \* the request being processed and the position in it
    response,         \* the Response of the request being processed
    invoked,          \* handlers invoked for the request being processed
    minted,           \* ids SessionManager::generate_id has returned
    threads,          \* the calls of concurrent threads that are between two steps
    tasks             \* Immortal.session_prune_task and the threads it has spawned

vars == << session_manager, now, threading, call, middleware, router,
           request, response, invoked, minted, threads, tasks >>

serverVars == << middleware, router, request, response, invoked >>

\* ------------------------------------------------------------- Session
SessionNew(t) ==
    [data |-> << >>, created |-> t, last_mutated |-> t, last_accessed |-> t]

\* HashMap::insert / HashMap::remove on a map held as a function
MapInsert(m, k, v) == [x \in DOMAIN m \cup {k} |-> IF x = k THEN v ELSE m[x]]
MapRemove(m, k) == [x \in DOMAIN m \ {k} |-> m[x]]

SessionManagerNew(cfg, t) ==
    [is_enabled |-> FALSE,
     store |-> << >>,
     session_duration |-> cfg.session_duration,
     inactive_duration |-> cfg.inactive_duration,
     prune_rate |-> cfg.prune_rate,
     last_prune |-> t]

\* What a method hands back: the manager after the call, the return value,
\* and whether a prune sweep ran inside the call.
Result(s, ret, swept) == [sm |-> s, ret |-> ret, swept |-> swept]

is_enabled(s) == s.is_enabled

enable(s) == [s EXCEPT !.is_enabled = TRUE]

\* a disable that only flips the flag
disableKeepStore(s) == [s EXCEPT !.is_enabled = FALSE]

disable(s) == [s EXCEPT !.is_enabled = FALSE, !.store = << >>]

\* a filter that forgets the absolute TTL
ExpiredIdleOnly(s, session, t) ==
    t - session.last_accessed >= s.inactive_duration

\* a filter that lets a session live one tick past either TTL
ExpiredLate(s, session, t) ==
    \/ t - session.last_accessed > s.inactive_duration
    \/ t - session.created > s.session_duration

\* the filter of the sweep: idle TTL first, absolute TTL second
Expired(s, session, t) ==
    IF t - session.last_accessed >= s.inactive_duration THEN TRUE
    ELSE IF t - session.created >= s.session_duration THEN TRUE
    ELSE FALSE

Sweep(s, t) ==
    LET to_remove == {id \in DOMAIN s.store : Expired(s, s.store[id], t)}
    IN [s EXCEPT !.last_prune = t,
                 !.store = [id \in DOMAIN s.store \ to_remove |-> s.store[id]]]

\* a prune that sweeps on every call
pruneUnlimited(s, t) ==
    IF ~threading /\ ~is_enabled(s) THEN Result(s, "()", FALSE)
    ELSE Result(Sweep(s, t), "()", TRUE)

prune(s, t) ==
    IF ~threading /\ ~is_enabled(s) THEN Result(s, "()", FALSE)
    ELSE IF t - s.last_prune < s.prune_rate THEN Result(s, "()", FALSE)
    ELSE Result(Sweep(s, t), "()", TRUE)

\* `#[cfg(not(feature = "threading"))] self.prune();` followed by a return
ReturnPruning(s, t, ret) ==
    IF threading THEN Result(s, ret, FALSE)
    ELSE Result(prune(s, t).sm, ret, prune(s, t).swept)

\* a create_session that does not look at is_enabled
create_sessionUnchecked(s, t, out) ==
    ReturnPruning([s EXCEPT !.store = MapInsert(@, out, SessionNew(t))], t, out)

\* `out` is the id the generate_id loop ends with: one not in the store
create_session(s, t, out) ==
    IF ~is_enabled(s) THEN Result(s, nil, FALSE)
    ELSE ReturnPruning([s EXCEPT !.store = MapInsert(@, out, SessionNew(t))], t, out)

\* a write_session that creates the session when the store has none
write_sessionUpserts(s, t, session_id, key, value) ==
    IF ~is_enabled(s) THEN Result(s, FALSE, FALSE)
    ELSE IF session_id = nil THEN ReturnPruning(s, t, FALSE)
    ELSE Result([s EXCEPT !.store = MapInsert(@, session_id,
                    [(IF session_id \in DOMAIN s.store THEN s.store[session_id]
                      ELSE SessionNew(t))
                        EXCEPT !.last_mutated = t,
                               !.last_accessed = t,
                               !.data = IF value = "" THEN MapRemove(@, key)
                                        ELSE MapInsert(@, key, value)])],
                TRUE, FALSE)

\* a write_session that sets last_mutated and leaves last_accessed alone
write_sessionMutatedOnly(s, t, session_id, key, value) ==
    IF ~is_enabled(s) THEN Result(s, FALSE, FALSE)
    ELSE IF session_id = nil THEN ReturnPruning(s, t, FALSE)
    ELSE IF session_id \in DOMAIN s.store THEN
        Result([s EXCEPT !.store[session_id] =
                   [@ EXCEPT !.last_mutated = t,
                             !.data = IF value = "" THEN MapRemove(@, key)
                                      ELSE MapInsert(@, key, value)]],
               TRUE, FALSE)
    ELSE ReturnPruning(s, t, FALSE)

\* a write_session that stores the empty value instead of removing the key
write_sessionKeepsEmpty(s, t, session_id, key, value) ==
    IF ~is_enabled(s) THEN Result(s, FALSE, FALSE)
    ELSE IF session_id = nil THEN ReturnPruning(s, t, FALSE)
    ELSE IF session_id \in DOMAIN s.store THEN
        Result([s EXCEPT !.store[session_id] =
                   [@ EXCEPT !.last_mutated = t,
                             !.last_accessed = t,
                             !.data = MapInsert(@, key, value)]],
               TRUE, FALSE)
    ELSE ReturnPruning(s, t, FALSE)

write_session(s, t, session_id, key, value) ==
    IF ~is_enabled(s) THEN Result(s, FALSE, FALSE)
    ELSE IF session_id = nil THEN ReturnPruning(s, t, FALSE)
    ELSE IF session_id \in DOMAIN s.store THEN
        Result([s EXCEPT !.store[session_id] =
                   [@ EXCEPT !.last_mutated = t,
                             !.last_accessed = t,
                             !.data = IF value = "" THEN MapRemove(@, key)
                                      ELSE MapInsert(@, key, value)]],
               TRUE, FALSE)
    ELSE ReturnPruning(s, t, FALSE)

\* a read_session that leaves last_accessed alone
read_sessionNoTouch(s, t, session_id, key) ==
    IF ~is_enabled(s) THEN Result(s, None, FALSE)
    ELSE IF session_id = nil THEN Result(s, None, FALSE)
    ELSE IF session_id \in DOMAIN s.store THEN
        Result(s,
               IF key \in DOMAIN s.store[session_id].data
               THEN Some(s.store[session_id].data[key]) ELSE None,
               FALSE)
    ELSE Result(s, None, FALSE)

read_session(s, t, session_id, key) ==
    IF ~is_enabled(s) THEN Result(s, None, FALSE)
    ELSE IF session_id = nil THEN Result(s, None, FALSE)
    ELSE IF session_id \in DOMAIN s.store THEN
        Result([s EXCEPT !.store[session_id].last_accessed = t],
               IF key \in DOMAIN s.store[session_id].data
               THEN Some(s.store[session_id].data[key]) ELSE None,
               FALSE)
    ELSE Result(s, None, FALSE)

\* a clear_session that puts the clocks of the session back to `created`
clear_sessionRewinds(s, t, session_id) ==
    IF ~is_enabled(s) THEN Result(s, "()", FALSE)
    ELSE IF session_id = nil THEN ReturnPruning(s, t, "()")
    ELSE IF session_id \in DOMAIN s.store THEN
        Result([s EXCEPT !.store[session_id] =
                   [@ EXCEPT !.last_mutated = s.store[session_id].created,
                             !.last_accessed = s.store[session_id].created,
                             !.data = << >>]],
               "()", FALSE)
    ELSE ReturnPruning(s, t, "()")

clear_session(s, t, session_id) ==
    IF ~is_enabled(s) THEN Result(s, "()", FALSE)
    ELSE IF session_id = nil THEN ReturnPruning(s, t, "()")
    ELSE IF session_id \in DOMAIN s.store THEN
        Result([s EXCEPT !.store[session_id] =
                   [@ EXCEPT !.last_mutated = t,
                             !.last_accessed = t,
                             !.data = << >>]],
               "()", FALSE)
    ELSE ReturnPruning(s, t, "()")

\* a delete_session that removes nothing
delete_sessionKeeps(s, t, session_id) ==
    IF ~is_enabled(s) THEN Result(s, "()", FALSE)
    ELSE IF session_id = nil THEN Result(s, "()", FALSE)
    ELSE ReturnPruning(s, t, "()")

delete_session(s, t, session_id) ==
    IF ~is_enabled(s) THEN Result(s, "()", FALSE)
    ELSE IF session_id = nil THEN Result(s, "()", FALSE)
    ELSE ReturnPruning([s EXCEPT !.store = MapRemove(@, session_id)], t, "()")

session_exists(s, session_id) ==
    IF ~is_enabled(s) THEN FALSE
    ELSE IF session_id = nil THEN FALSE
    ELSE session_id \in DOMAIN s.store

\* an add_session that accepts the nil id
add_sessionNilUnchecked(s, t, session_id) ==
    IF ~is_enabled(s) THEN Result(s, FALSE, FALSE)
    ELSE IF session_id \notin DOMAIN s.store THEN
        Result([s EXCEPT !.store = MapInsert(@, session_id, SessionNew(t))],
               TRUE, FALSE)
    ELSE ReturnPruning(s, t, FALSE)

\* an add_session that puts a fresh session in the place of an existing one
add_sessionReplaces(s, t, session_id) ==
    IF ~is_enabled(s) THEN Result(s, FALSE, FALSE)
    ELSE IF session_id = nil THEN ReturnPruning(s, t, FALSE)
    ELSE IF session_id \notin DOMAIN s.store THEN
        Result([s EXCEPT !.store = MapInsert(@, session_id, SessionNew(t))],
               TRUE, FALSE)
    ELSE ReturnPruning([s EXCEPT !.store = MapInsert(@, session_id, SessionNew(t))],
                       t, FALSE)

add_session(s, t, session_id) ==
    IF ~is_enabled(s) THEN Result(s, FALSE, FALSE)
    ELSE IF session_id = nil THEN ReturnPruning(s, t, FALSE)
    ELSE IF session_id \notin DOMAIN s.store THEN
        Result([s EXCEPT !.store = MapInsert(@, session_id, SessionNew(t))],
               TRUE, FALSE)
    ELSE ReturnPruning(s, t, FALSE)


\* a get_or_create_session that takes the cookie's id for a session's
\* without looking it up
get_or_create_sessionTrusting(s, t, cookies, out) ==
    IF ~is_enabled(s) THEN Result(s, None, FALSE)
    ELSE
        LET parsed == IF "id" \in DOMAIN cookies
                      THEN IF parse_uuid(cookies["id"]) = None THEN nil
                           ELSE parse_uuid(cookies["id"])[1]
                      ELSE nil
            created == create_session(s, t, out)
        IN IF parsed # nil THEN Result(s, Some(<<parsed, FALSE>>), FALSE)
           ELSE Result(created.sm, Some(<<created.ret, TRUE>>), created.swept)

\* tries the `id` cookie, creates a session when it names none
get_or_create_session(s, t, cookies, out) ==
    IF ~is_enabled(s) THEN Result(s, None, FALSE)
    ELSE
        LET parsed == IF "id" \in DOMAIN cookies
                      THEN IF parse_uuid(cookies["id"]) = None THEN nil
                           ELSE parse_uuid(cookies["id"])[1]
                      ELSE nil
            exists == session_exists(s, parsed)
            created == create_session(s, t, out)
            session_id == IF exists THEN parsed ELSE created.ret
            after == IF exists THEN Result(s, parsed, FALSE) ELSE created
        IN IF session_id # nil
           THEN Result(after.sm, Some(<<session_id, ~exists>>), after.swept)
           ELSE Result(ReturnPruning(after.sm, t, None).sm, None,
                       after.swept \/ ReturnPruning(after.sm, t, None).swept)

\* ------------------------------------------------------------- Context
Context_write_session(s, t, session_id, key, value) ==
    IF session_id = nil THEN Result(s, FALSE, FALSE)
    ELSE write_session(s, t, session_id, key, value)

Context_read_session(s, t, session_id, key) ==
    IF session_id = nil THEN Result(s, None, FALSE)
    ELSE read_session(s, t, session_id, key)

Context_clear_session(s, t, session_id) ==
    IF session_id = nil THEN Result(s, "()", FALSE)
    ELSE clear_session(s, t, session_id)

Context_delete_session(s, t, session_id) ==
    IF session_id = nil THEN Result(s, "()", FALSE)
    ELSE delete_session(s, t, session_id)

Context_session_exists(s, session_id) ==
    IF session_id = nil THEN FALSE
    ELSE session_exists(s, session_id)

\* ------------------------------------------------------------ Response
\* a status code is its three digits
Code200 == <<2, 0, 0>>
Code301 == <<3, 0, 1>>
Code302 == <<3, 0, 2>>
Code400 == <<4, 0, 0>>
Code500 == <<5, 0, 0>>
Code501 == <<5, 0, 1>>
Code505 == <<5, 0, 5>>

starts_with_3(code) == Len(code) > 0 /\ code[1] = 3

\* Cookie::builder().name("id").value(..).http_only(true).build()
IdCookie(session_id) ==
    [name |-> "id", value |-> to_string(session_id), http_only |-> TRUE]

\* the Cookie headers a client sends: none, an `id` that is no Uuid, an
\* `id` that is one
RequestCookies ==
    {<< >>} \cup {[id |-> Junk]} \cup {[id |-> to_string(u)] : u \in Uuid}

\* Request::cookie("id"): the cookie's value, if the request carries one
RequestCookie(cookies, key) ==
    IF key \in DOMAIN cookies THEN Some(cookies[key]) ELSE None

\* Response::new: the id under which the request runs, the Set-Cookie list
Response_new(s, t, method, cookies, generated) ==
    LET sm_is_enabled == is_enabled(s)
        cookie == RequestCookie(cookies, "id")
        from_cookie ==
            IF sm_is_enabled /\ cookie # None /\ parse_uuid(cookie[1]) # None
            THEN parse_uuid(cookie[1])[1]
            ELSE nil
        added == add_session(s, t, from_cookie)
        s1 == IF sm_is_enabled THEN added.sm ELSE s
        sm_should_gen_id ==
            /\ is_enabled(s)
            /\ ~added.ret
            /\ ~session_exists(s1, from_cookie)
        session_id == IF sm_should_gen_id THEN generated ELSE from_cookie
        should_add_cookie == sm_should_gen_id
        set_cookies ==
            IF is_enabled(s1) /\ should_add_cookie /\ session_id # nil
            THEN << IdCookie(session_id) >> ELSE << >>
    IN [sm |-> s1,
        session_id |-> session_id,
        generated |-> sm_should_gen_id,
        swept |-> sm_is_enabled /\ added.swept,
        response |->
            [body |-> << >>,
             code |-> Code200,
             status |-> "OK",
             method |-> method,
             headers |-> ("Connection" :> "close") @@ ("Content-Type" :> "text/html"),
             cookies |-> set_cookies]]

\* an is_redirect that looks at the code alone
Response_is_redirectCodeOnly(resp) == starts_with_3(resp.code)

Response_is_redirect(resp) ==
    LET cases1 == IF starts_with_3(resp.code) THEN 1 ELSE 0
        cases2 == IF "Location" \in DOMAIN resp.headers THEN cases1 + 1 ELSE cases1
    IN cases2 = 2

\* util::is_redirect, the free function Middleware::run calls
is_redirect(resp) ==
    LET cases1 == IF starts_with_3(resp.code) THEN 1 ELSE 0
        cases2 == IF "Location" \in DOMAIN resp.headers THEN cases1 + 1 ELSE cases1
    IN cases2 = 2

\* Context::redirect
redirect(resp, location) ==
    [resp EXCEPT !.code = Code302,
                 !.headers = MapInsert(@, "Location", location)]

\* the default fallback
not_implemented(resp) == [resp EXCEPT !.code = Code501]

\* --------------------------------------------------- Response::serialize
\* STATUSES: the default phrase of the codes the library knows
STATUSES ==
    (<<2, 0, 0>> :> "OK") @@ (<<3, 0, 1>> :> "MOVED PERMANENTLY")
        @@ (<<3, 0, 2>> :> "FOUND") @@ (<<3, 0, 8>> :> "PERMANENT REDIRECT")
        @@ (<<4, 0, 0>> :> "BAD REQUEST") @@ (<<4, 0, 1>> :> "UNAUTHORIZED")
        @@ (<<4, 0, 3>> :> "FORBIDDEN") @@ (<<4, 0, 4>> :> "NOT FOUND")
        @@ (<<4, 1, 1>> :> "LENGTH REQUIRED") @@ (<<4, 1, 3>> :> "PAYLOAD TOO LARGE")
        @@ (<<4, 1, 4>> :> "URI TOO LONG") @@ (<<4, 1, 8>> :> "I AM A TEAPOT")
        @@ (<<4, 2, 6>> :> "UPGRADE REQUIRED")
        @@ (<<4, 5, 1>> :> "UNAVAILABLE FOR LEGAL REASONS")
        @@ (<<5, 0, 0>> :> "INTERNAL SERVER ERROR") @@ (<<5, 0, 1>> :> "NOT IMPLEMENTED")
        @@ (<<5, 0, 5>> :> "HTTP VERSION NOT SUPPORTED")

\* format!("<h1>500: {}</h1>", status).into_bytes() for the phrase of 500
Html500 ==
    << "<", "h", "1", ">", "5", "0", "0", ":", " ",
       "I", "N", "T", "E", "R", "N", "A", "L", " ",
       "S", "E", "R", "V", "E", "R", " ", "E", "R", "R", "O", "R",
       "<", "/", "h", "1", ">" >>

\* Response::serialize at instant t: the status line, the header lines
\* emitted from the map, the Content-Length line that ends the head, and
\* the bytes after the terminator.  The value of Set-Cookie is the list of
\* cookies the code joins with "; ".
\* a serialize that emits the body whatever the method
serializeWithBody(resp, t) ==
    LET looked == IF resp.code \in DOMAIN STATUSES THEN STATUSES[resp.code]
                  ELSE resp.status
        promoted == looked = ""
        body == IF promoted THEN Html500 ELSE resp.body
        headers1 == IF promoted
                    THEN MapInsert(resp.headers, "Content-Type", "text/html")
                    ELSE resp.headers
        headers2 == IF resp.cookies # << >>
                    THEN MapInsert(headers1, "Set-Cookie", resp.cookies)
                    ELSE headers1
        headers3 == MapInsert(headers2, "Date", t)
    IN [status_line |-> <<"HTTP/1.1", IF promoted THEN Code500 ELSE resp.code,
                          IF promoted THEN STATUSES[Code500] ELSE looked>>,
        headers |-> [k \in DOMAIN headers3 \ {""} |-> headers3[k]],
        content_length |-> Len(body),
        body |-> body]

serialize(resp, t) ==
    LET looked == IF resp.code \in DOMAIN STATUSES THEN STATUSES[resp.code]
                  ELSE resp.status
        promoted == looked = ""
        code == IF promoted THEN Code500 ELSE resp.code
        status == IF promoted THEN STATUSES[Code500] ELSE looked
        headers1 == IF promoted
                    THEN MapInsert(resp.headers, "Content-Type", "text/html")
                    ELSE resp.headers
        body == IF promoted THEN Html500 ELSE resp.body
        headers2 == IF resp.cookies # << >>
                    THEN MapInsert(headers1, "Set-Cookie", resp.cookies)
                    ELSE headers1
        headers3 == MapInsert(headers2, "Date", t)
    IN [status_line |-> <<"HTTP/1.1", code, status>>,
        headers |-> [k \in DOMAIN headers3 \ {""} |-> headers3[k]],
        content_length |-> IF resp.method # "HEAD" THEN Len(body) ELSE 0,
        body |-> IF resp.method # "HEAD" THEN body ELSE << >>]

\* ------------------------------------------------- Middleware and Router
\* a push that puts the handler in front of the others
pushFront(mw, func) == <<func>> \o mw

\* Middleware::push
push(mw, func) == Append(mw, func)

\* a Middleware::run that calls every handler, redirect or not
MiddlewareCallsUnchecked(mw, next, resp) == next <= Len(mw)

\* Middleware::run goes on to call middleware[next]
MiddlewareCalls(mw, next, resp) ==
    /\ next <= Len(mw)
    /\ ~is_redirect(resp)

\* a Router::call that looks the method up without regard to case
RouterTargetIgnoreCase(r, method, document, resp) ==
    LET upper == IF method = "get" THEN "GET" ELSE method
    IN IF Response_is_redirect(resp) THEN None
       ELSE IF <<upper, document>> \in DOMAIN r.routes
            THEN Some([kind |-> "route", handler |-> r.routes[<<upper, document>>]])
            ELSE Some([kind |-> "fallback", handler |-> r.fallback])

\* Router::call: the handler it invokes, if any
RouterTarget(r, method, document, resp) ==
    IF Response_is_redirect(resp) THEN None
    ELSE IF <<method, document>> \in DOMAIN r.routes
         THEN Some([kind |-> "route", handler |-> r.routes[<<method, document>>]])
         ELSE Some([kind |-> "fallback", handler |-> r.fallback])

\* a register that starts the method's map anew at every call
registerFresh(r, method, route, func) ==
    Result([r EXCEPT !.routes =
               MapInsert([p \in {q \in DOMAIN r.routes : q[1] # method} |-> r.routes[p]],
                         <<method, route>>, func)],
           TRUE, FALSE)

register(r, method, route, func) ==
    Result([r EXCEPT !.routes = MapInsert(@, <<method, route>>, func)], TRUE, FALSE)

fallback(r, func) == [r EXCEPT !.fallback = func]

\* an unregister that drops every route of the method
unregisterMethod(r, method, route) ==
    Result([r EXCEPT !.routes = [p \in {q \in DOMAIN r.routes : q[1] # method} |-> r.routes[p]]],
           <<method, route>> \in DOMAIN r.routes, FALSE)

unregister(r, method, route) ==
    Result([r EXCEPT !.routes = MapRemove(@, <<method, route>>)],
           <<method, route>> \in DOMAIN r.routes, FALSE)

\* What a handler does with its Context when it is invoked: with the
\* response, with the session of the request.
ResponseEffects == {"nothing", "redirect", "code_301", "location"}
SessionEffects == {"write_session", "delete_session"}
Effects == ResponseEffects \cup SessionEffects

\* One invocation of a handler: the manager and the response after it.
Invoke(handler, effect, s, t, session_id, resp) ==
    IF handler = "not_implemented" THEN
        [sm |-> s, response |-> not_implemented(resp), ret |-> "()", swept |-> FALSE]
    ELSE IF effect = "redirect" THEN
        [sm |-> s, response |-> redirect(resp, "/login"), ret |-> "()", swept |-> FALSE]
    ELSE IF effect = "code_301" THEN
        [sm |-> s, response |-> [resp EXCEPT !.code = Code301], ret |-> "()", swept |-> FALSE]
    ELSE IF effect = "location" THEN
        [sm |-> s, response |-> [resp EXCEPT !.headers = MapInsert(@, "Location", "/login")],
         ret |-> "()", swept |-> FALSE]
    ELSE IF effect = "write_session" THEN
        LET w == Context_write_session(s, t, session_id, "a", "v")
        IN [sm |-> w.sm, response |-> resp, ret |-> w.ret, swept |-> w.swept]
    ELSE IF effect = "delete_session" THEN
        LET d == Context_delete_session(s, t, session_id)
        IN [sm |-> d.sm, response |-> resp, ret |-> d.ret, swept |-> d.swept]
    ELSE [sm |-> s, response |-> resp, ret |-> "()", swept |-> FALSE]

\* ------------------------------------------------------------- initial
NoRequest ==
    [pc |-> "idle", method |-> "", document |-> "", cookies |-> << >>,
     session_id |-> nil, next |-> 0]

NoResponse ==
    [body |-> << >>, code |-> << >>, status |-> "", method |-> "",
     headers |-> << >>, cookies |-> << >>]

\* a thread that is in no call
ThreadIdle == [pc |-> "idle", id |-> nil, to_remove |-> {}]

\* Immortal::new: session_prune_task is None and no thread was spawned;
\* `dropped` holds once the Immortal value has been dropped
NoTasks == [session_prune_task |-> None, spawned |-> << >>, dropped |-> FALSE]

RouterNew == [fallback |-> "not_implemented", routes |-> << >>]

\* `removed` holds the sessions a sweep inside the call, or disable, took out
\* of the store
NoCall == [op |-> "new", id |-> nil, key |-> "", value |-> "", func |-> "",
           ret |-> "()", swept |-> FALSE, removed |-> << >>]

Init ==
    /\ now = 0
    /\ threading \in BOOLEAN
    /\ \E cfg \in Configs : session_manager = SessionManagerNew(cfg, 0)
    /\ call = NoCall
    /\ middleware = << >>
    /\ router = RouterNew
    /\ request = NoRequest
    /\ response = NoResponse
    /\ invoked = << >>
    /\ minted = {}
    /\ threads = [t \in Threads |-> ThreadIdle]
    /\ tasks = NoTasks

\* ------------------------------------------- the session manager's API
Removed(s, r) ==
    IF r.swept
    THEN [id \in DOMAIN s.store \ DOMAIN r.sm.store |-> s.store[id]]
    ELSE << >>

Called(op, id, key, value, r) ==
    /\ session_manager' = r.sm
    /\ call' = [op |-> op, id |-> id, key |-> key, value |-> value, func |-> "",
                ret |-> r.ret, swept |-> r.swept,
                removed |-> Removed(session_manager, r)]

Enable ==
    /\ Called("enable", nil, "", "", Result(enable(session_manager), "()", FALSE))
    /\ UNCHANGED << now, threading, tasks, threads, serverVars, minted >>

Disable ==
    /\ session_manager' = disable(session_manager)
    /\ call' = [NoCall EXCEPT !.op = "disable", !.removed = session_manager.store]
    /\ UNCHANGED << now, threading, tasks, threads, serverVars, minted >>

CreateSession ==
    \/ /\ ~is_enabled(session_manager)
       /\ Called("create_session", nil, "", "", create_session(session_manager, now, nil))
       /\ UNCHANGED << now, threading, tasks, threads, serverVars, minted >>
    \/ /\ is_enabled(session_manager)
       /\ \E out \in GeneratedUuid \ DOMAIN session_manager.store :
            /\ Called("create_session", nil, "", "", create_session(session_manager, now, out))
            /\ minted' = minted \cup {out}
       /\ UNCHANGED << now, threading, tasks, threads, serverVars >>

WriteSession ==
    /\ \E id \in Uuid, key \in Keys, value \in Values :
         Called("write_session", id, key, value,
                write_session(session_manager, now, id, key, value))
    /\ UNCHANGED << now, threading, tasks, threads, serverVars, minted >>

ReadSession ==
    /\ \E id \in Uuid, key \in Keys :
         Called("read_session", id, key, "", read_session(session_manager, now, id, key))
    /\ UNCHANGED << now, threading, tasks, threads, serverVars, minted >>

ClearSession ==
    /\ \E id \in Uuid :
         Called("clear_session", id, "", "", clear_session(session_manager, now, id))
    /\ UNCHANGED << now, threading, tasks, threads, serverVars, minted >>

DeleteSession ==
    /\ \E id \in Uuid :
         Called("delete_session", id, "", "", delete_session(session_manager, now, id))
    /\ UNCHANGED << now, threading, tasks, threads, serverVars, minted >>

\* a session_exists that counts as an access of the session it finds
SessionExistsTouching ==
    /\ \E id \in Uuid :
         Called("session_exists", id, "", "",
                Result(IF session_exists(session_manager, id)
                       THEN [session_manager EXCEPT !.store[id].last_accessed = now]
                       ELSE session_manager,
                       session_exists(session_manager, id), FALSE))
    /\ UNCHANGED << now, threading, tasks, threads, serverVars, minted >>

SessionExists ==
    /\ \E id \in Uuid :
         Called("session_exists", id, "", "",
                Result(session_manager, session_exists(session_manager, id), FALSE))
    /\ UNCHANGED << now, threading, tasks, threads, serverVars, minted >>

IsEnabled ==
    /\ Called("is_enabled", nil, "", "",
              Result(session_manager, is_enabled(session_manager), FALSE))
    /\ UNCHANGED << now, threading, tasks, threads, serverVars, minted >>

AddSession ==
    /\ \E id \in Uuid :
         Called("add_session", id, "", "", add_session(session_manager, now, id))
    /\ UNCHANGED << now, threading, tasks, threads, serverVars, minted >>

\* The loop of create_session ends with an id the store does not hold;
\* when the store holds every id of the model the call is taken only where
\* it creates nothing.
GetOrCreateSession ==
    /\ \E cookies \in RequestCookies :
         LET parsed == IF "id" \in DOMAIN cookies THEN parse_uuid(cookies["id"]) ELSE None
             id == IF parsed = None THEN nil ELSE parsed[1]
             sent == IF "id" \notin DOMAIN cookies THEN "absent"
                     ELSE IF parsed = None THEN "unparsable" ELSE "uuid"
         IN \/ \E out \in GeneratedUuid \ DOMAIN session_manager.store :
                 LET r == get_or_create_session(session_manager, now, cookies, out)
                 IN /\ Called("get_or_create_session", id, sent, "", r)
                    /\ minted' = IF r.ret # None /\ r.ret[1][2]
                                  THEN minted \cup {out} ELSE minted
            \/ /\ GeneratedUuid \subseteq DOMAIN session_manager.store
               /\ LET r == get_or_create_session(session_manager, now, cookies, nil)
                  IN /\ r.ret # None
                     /\ ~r.ret[1][2]
                     /\ Called("get_or_create_session", id, sent, "", r)
               /\ minted' = minted
    /\ UNCHANGED << now, threading, tasks, threads, serverVars >>

Prune ==
    /\ Called("prune", nil, "", "", prune(session_manager, now))
    /\ UNCHANGED << now, threading, tasks, threads, serverVars, minted >>

\* time passes between two calls
Tick ==
    /\ now < MaxTime
    /\ now' = now + 1
    /\ call' = [NoCall EXCEPT !.op = "tick"]
    /\ UNCHANGED << session_manager, threading, tasks, threads, serverVars, minted >>

Next ==
    \/ Enable
    \/ Disable
    \/ CreateSession
    \/ WriteSession
    \/ ReadSession
    \/ ClearSession
    \/ DeleteSession
    \/ SessionExists
    \/ IsEnabled
    \/ AddSession
    \/ GetOrCreateSession
    \/ Prune
    \/ Tick

Spec == Init /\ [][Next]_vars

\* --------------------------------------------------- the server's API
\* process_buffer takes `&mut self`: no other method of Immortal runs while
\* a request is in it.  Its Request, Response and Context are dropped when
\* it returns; the model keeps them until the next call for observation.
Idle == request.pc \in {"idle", "done"}

Dropped ==
    /\ request' = NoRequest
    /\ response' = NoResponse
    /\ invoked' = << >>

ServerCalled(op, s, ret) ==
    /\ session_manager' = s
    /\ call' = [NoCall EXCEPT !.op = op, !.ret = ret]

\* a call of Immortal::register or Immortal::unregister, as the last call
RouterCalled(op, method, route, func, ret) ==
    /\ session_manager' = session_manager
    /\ call' = [NoCall EXCEPT !.op = op, !.key = method, !.value = route,
                               !.func = func, !.ret = ret]

EnableSessions ==
    /\ Idle
    /\ Dropped
    /\ ServerCalled("enable_sessions", enable(session_manager), "()")
    /\ UNCHANGED << now, threading, tasks, threads, middleware, router, minted >>

DisableSessions ==
    /\ Idle
    /\ Dropped
    /\ ServerCalled("disable_sessions", disable(session_manager), "()")
    /\ UNCHANGED << now, threading, tasks, threads, middleware, router, minted >>

AddMiddlewareWith(handlers) ==
    /\ Idle
    /\ Dropped
    /\ Len(middleware) < MaxMiddleware
    /\ \E func \in handlers :
         /\ middleware' = push(middleware, func)
         /\ call' = [NoCall EXCEPT !.op = "add_middleware", !.func = func]
    /\ session_manager' = session_manager
    /\ UNCHANGED << now, threading, tasks, threads, router, minted >>

AddMiddleware == AddMiddlewareWith(Handlers)

AddMiddlewareOne == AddMiddlewareWith({"h1"})

Register ==
    /\ Idle
    /\ Dropped
    /\ \E method \in Methods, route \in Documents, func \in Handlers :
         /\ router' = register(router, method, route, func).sm
         /\ RouterCalled("register", method, route, func,
                         register(router, method, route, func).ret)
    /\ UNCHANGED << now, threading, tasks, threads, middleware, minted >>

Unregister ==
    /\ Idle
    /\ Dropped
    /\ \E method \in Methods, route \in Documents :
         /\ router' = unregister(router, method, route).sm
         /\ RouterCalled("unregister", method, route, "",
                         unregister(router, method, route).ret)
    /\ UNCHANGED << now, threading, tasks, threads, middleware, minted >>

Fallback ==
    /\ Idle
    /\ Dropped
    /\ router' = fallback(router, "h1")
    /\ ServerCalled("fallback", session_manager, "()")
    /\ UNCHANGED << now, threading, tasks, threads, middleware, minted >>

\* process_buffer up to the call of Middleware::run: the request is parsed,
\* Response::new resolves the session id, the Context is built.
ReceiveWith(methods, documents, cookieJars) ==
    /\ Idle
    /\ \E method \in methods, document \in documents,
          cookies \in cookieJars, generated \in GeneratedUuid :
         LET r == Response_new(session_manager, now, method, cookies, generated)
         IN /\ session_manager' = r.sm
            /\ request' = [pc |-> "middleware", method |-> method,
                           document |-> document, cookies |-> cookies,
                           session_id |-> r.session_id, next |-> 1]
            /\ response' = r.response
            /\ minted' = IF r.generated THEN minted \cup {generated} ELSE minted
            /\ call' = [NoCall EXCEPT !.op = "Response::new", !.id = r.session_id,
                                       !.ret = r.generated, !.swept = r.swept]
    /\ invoked' = << >>
    /\ UNCHANGED << now, threading, tasks, threads, middleware, router >>

\* a request of a client that may hold an `id` cookie
Receive == ReceiveWith({"GET"}, {"/"}, RequestCookies)

\* a request of a client without cookies
ReceivePlain == ReceiveWith(RequestMethods, Documents, {<< >>})

\* Middleware::run calls its next handler
RunMiddlewareWith(effects) ==
    /\ request.pc = "middleware"
    /\ MiddlewareCalls(middleware, request.next, response)
    /\ \E effect \in effects :
         LET func == middleware[request.next]
             r == Invoke(func, effect, session_manager, now, request.session_id, response)
         IN /\ session_manager' = r.sm
            /\ response' = r.response
            /\ invoked' = Append(invoked, [kind |-> "middleware", handler |-> func,
                                           redirect |-> is_redirect(r.response)])
            /\ call' = [NoCall EXCEPT !.op = "handler", !.id = request.session_id,
                                       !.key = effect, !.ret = r.ret,
                                       !.swept = r.swept]
    /\ request' = [request EXCEPT !.next = @ + 1]
    /\ UNCHANGED << now, threading, tasks, threads, middleware, router, minted >>

RunMiddleware == RunMiddlewareWith(Effects)

RunMiddlewarePlain == RunMiddlewareWith(ResponseEffects)

\* Middleware::run has returned; Router::call, then the response goes out
RouterCallWith(effects) ==
    /\ request.pc = "middleware"
    /\ ~MiddlewareCalls(middleware, request.next, response)
    /\ LET target == RouterTarget(router, request.method, request.document, response)
       IN IF target = None
          THEN /\ call' = [NoCall EXCEPT !.op = "Router::call",
                                          !.id = request.session_id]
               /\ UNCHANGED << session_manager, response, invoked >>
          ELSE \E effect \in effects :
                 LET r == Invoke(target[1].handler, effect, session_manager, now,
                                 request.session_id, response)
                 IN /\ session_manager' = r.sm
                    /\ response' = r.response
                    /\ invoked' = Append(invoked, [kind |-> target[1].kind,
                                                   handler |-> target[1].handler,
                                                   redirect |-> is_redirect(r.response)])
                    /\ call' = [NoCall EXCEPT !.op = "handler",
                                               !.id = request.session_id,
                                               !.key = effect, !.ret = r.ret,
                                               !.swept = r.swept]
    /\ request' = [request EXCEPT !.pc = "done"]
    /\ UNCHANGED << now, threading, tasks, threads, middleware, router, minted >>

RouterCall == RouterCallWith(Effects)

RouterCallPlain == RouterCallWith(ResponseEffects)

\* Immortal::new: SessionManager::default(), 12 h / 1 h / 60 s in seconds
DefaultConfig ==
    [session_duration |-> 12 * 3600, inactive_duration |-> 3600, prune_rate |-> 60]

ServerInit ==
    /\ now = 0
    /\ threading \in BOOLEAN
    /\ session_manager = SessionManagerNew(DefaultConfig, 0)
    /\ call = NoCall
    /\ middleware = << >>
    /\ router = RouterNew
    /\ request = NoRequest
    /\ response = NoResponse
    /\ invoked = << >>
    /\ minted = {}
    /\ threads = [t \in Threads |-> ThreadIdle]
    /\ tasks = NoTasks

\* Requests against a server with sessions: the session manager, the
\* middleware and the fallback are configured between requests.
ServerNext ==
    \/ EnableSessions
    \/ DisableSessions
    \/ AddMiddlewareOne
    \/ Fallback
    \/ Receive
    \/ RunMiddleware
    \/ RouterCall

ServerSpec == ServerInit /\ [][ServerNext]_vars

\* Requests against a server without sessions: the middleware and the
\* routes are configured between requests.
PipelineNext ==
    \/ AddMiddleware
    \/ Register
    \/ Unregister
    \/ ReceivePlain
    \/ RunMiddlewarePlain
    \/ RouterCallPlain

PipelineInit == ServerInit /\ ~threading

PipelineSpec == PipelineInit /\ [][PipelineNext]_vars

\* ------------------------------------------------- the two entry points
\* What a client sends, as far as Request::new looks at it to accept or
\* reject it: the items of the request line split at ' ', the third one
\* split at '/'.
Protocols == {<<"HTTP", "1.1">>, <<"HTTP", "1.0">>, <<"HTTPS", "1.1">>, <<"HTTP">>}

Buffers ==
    {<<"GET", d>> : d \in {"/", "login"}}
        \cup {<<"GET", d, p>> : d \in {"/", "login"}, p \in Protocols}

\* document.starts_with('/')
starts_with_slash(document) == document \in {"/", "/login"}

Err(variant) == [ok |-> FALSE, err |-> variant]

\* Request::new, in the order of its checks
Request_new(line) ==
    IF Len(line) # 3 THEN Err("RequestLineMalformed")
    ELSE IF ~starts_with_slash(line[2]) THEN Err("DocumentMalformed")
    ELSE IF Len(line[3]) # 2 THEN Err("ProtoMalformed")
    ELSE IF line[3][1] # "HTTP" THEN Err("ProtoInvalid")
    ELSE IF line[3][2] # "1.1" THEN Err("ProtoVersionInvalid")
    ELSE [ok |-> TRUE, method |-> line[1], document |-> line[2]]

\* an error response that carries a session cookie
Response_badSetCookie ==
    [body |-> << >>, code |-> Code400, status |-> "BAD REQUEST", method |-> "GET",
     headers |-> ("Connection" :> "close") @@ ("Content-Type" :> "text/html"),
     cookies |-> << IdCookie(1) >>]

Response_bad ==
    [body |-> << >>, code |-> Code400, status |-> "BAD REQUEST", method |-> "GET",
     headers |-> ("Connection" :> "close") @@ ("Content-Type" :> "text/html"),
     cookies |-> << >>]

\* the entry point answers without a Context: `response` is what it sends
Answered(entry, variant, resp) ==
    /\ request' = [NoRequest EXCEPT !.pc = "done"]
    /\ response' = resp
    /\ invoked' = << >>
    /\ call' = [NoCall EXCEPT !.op = entry, !.key = variant]
    /\ UNCHANGED << session_manager, now, threading, tasks, threads, middleware, router, minted >>

\* handle_connection up to the call of Middleware::run
HandleConnection ==
    /\ Idle
    /\ \/ \E read_sz \in {"Err", "0"} : Answered("handle_connection", read_sz, NoResponse)
       \/ \E buf \in Buffers :
            LET req == Request_new(buf)
            IN IF req.ok
               THEN ReceiveWith({req.method}, {req.document}, {<< >>})
               ELSE IF req.err = "ProtoVersionInvalid"
               THEN Answered("handle_connection", req.err,
                             [Response_bad EXCEPT !.code = Code505])
               ELSE Answered("handle_connection", req.err, Response_bad)

\* process_buffer up to the call of Middleware::run
ProcessBuffer ==
    /\ Idle
    /\ \E buf \in Buffers :
         LET req == Request_new(buf)
         IN IF req.ok
            THEN ReceiveWith({req.method}, {req.document}, {<< >>})
            ELSE Answered("process_buffer", req.err, Response_bad)

ShellNext ==
    \/ AddMiddleware
    \/ HandleConnection
    \/ ProcessBuffer
    \/ RunMiddlewarePlain
    \/ RouterCallPlain

ShellSpec == PipelineInit /\ [][ShellNext]_vars

\* The two entry points on a server whose sessions are switched on and off
\* between requests; some of the requests that parse carry an `id` cookie.
FailureNext ==
    \/ EnableSessions
    \/ DisableSessions
    \/ AddMiddlewareOne
    \/ Receive
    \/ HandleConnection
    \/ ProcessBuffer
    \/ RunMiddleware
    \/ RouterCall

FailureSpec == ServerInit /\ [][FailureNext]_vars

\* ------------------------------------------ concurrent calls on the store
\* The threading build: the threads of the pool share the SessionManager
\* and call its methods at the same time.  A step is one operation of the
\* DashMap: contains_key, insert, remove, or the body a get_mut guard
\* protects (the guard holds the shard's write lock until it is dropped, and
\* Instant::now() is read under it).  In this build the methods do not call
\* prune, and a call on the nil id returns at once.

\* add_session up to `if !self.store.contains_key(&session_id)`: the call
\* goes on to the insert
add_session_absent(s, session_id) ==
    /\ is_enabled(s)
    /\ session_id # nil
    /\ session_id \notin DOMAIN s.store

\* `self.store.insert(id, Session::new())`
store_insert(s, t, session_id) ==
    [s EXCEPT !.store = MapInsert(@, session_id, SessionNew(t))]

ThreadCalled(t, op, id, key, value, r) ==
    /\ threads[t].pc = "idle"
    /\ Called(op, id, key, value, r)
    /\ UNCHANGED << now, threading, tasks, threads, serverVars, minted >>

ConcAddSessionCheck(t) ==
    /\ threads[t].pc = "idle"
    /\ \E id \in Uuid :
         IF add_session_absent(session_manager, id)
         THEN /\ threads' = [threads EXCEPT ![t] = [ThreadIdle EXCEPT !.pc = "add_session", !.id = id]]
              /\ call' = [NoCall EXCEPT !.op = "contains_key", !.id = id, !.ret = FALSE]
              /\ UNCHANGED session_manager
         ELSE /\ Called("add_session", id, "", "", Result(session_manager, FALSE, FALSE))
              /\ UNCHANGED threads
    /\ UNCHANGED << now, threading, tasks, serverVars, minted >>

ConcAddSessionInsert(t) ==
    /\ threads[t].pc = "add_session"
    /\ Called("add_session", threads[t].id, "", "",
              Result(store_insert(session_manager, now, threads[t].id), TRUE, FALSE))
    /\ threads' = [threads EXCEPT ![t] = ThreadIdle]
    /\ UNCHANGED << now, threading, tasks, serverVars, minted >>

\* create_session up to the end of its loop: `out` is an id that
\* contains_key did not find
ConcCreateSessionCheck(t) ==
    /\ threads[t].pc = "idle"
    /\ is_enabled(session_manager)
    /\ \E out \in GeneratedUuid \ DOMAIN session_manager.store :
         /\ threads' = [threads EXCEPT ![t] = [ThreadIdle EXCEPT !.pc = "create_session", !.id = out]]
         /\ call' = [NoCall EXCEPT !.op = "contains_key", !.id = out, !.ret = FALSE]
         /\ minted' = minted \cup {out}
    /\ UNCHANGED << session_manager, now, threading, tasks, serverVars >>

ConcCreateSessionInsert(t) ==
    /\ threads[t].pc = "create_session"
    /\ Called("create_session", threads[t].id, "", "",
              Result(store_insert(session_manager, now, threads[t].id),
                     threads[t].id, FALSE))
    /\ threads' = [threads EXCEPT ![t] = ThreadIdle]
    /\ UNCHANGED << now, threading, tasks, serverVars, minted >>

ConcWriteSession(t) ==
    \E id \in GeneratedUuid, key \in Keys, value \in Values :
        ThreadCalled(t, "write_session", id, key, value,
                     write_session(session_manager, now, id, key, value))

ConcReadSession(t) ==
    \E id \in GeneratedUuid, key \in Keys :
        ThreadCalled(t, "read_session", id, key, "",
                     read_session(session_manager, now, id, key))

ConcClearSession(t) ==
    \E id \in GeneratedUuid :
        ThreadCalled(t, "clear_session", id, "", "",
                     clear_session(session_manager, now, id))

ConcDeleteSession(t) ==
    \E id \in GeneratedUuid :
        ThreadCalled(t, "delete_session", id, "", "",
                     delete_session(session_manager, now, id))

\* disable up to `self.is_enabled.store(false, Relaxed)`
ConcDisableStore(t) ==
    /\ threads[t].pc = "idle"
    /\ session_manager' = [session_manager EXCEPT !.is_enabled = FALSE]
    /\ threads' = [threads EXCEPT ![t] = [ThreadIdle EXCEPT !.pc = "disable"]]
    /\ call' = [NoCall EXCEPT !.op = "is_enabled.store"]
    /\ UNCHANGED << now, threading, tasks, serverVars, minted >>

\* `self.store.clear()`, and disable returns
ConcDisableClear(t) ==
    /\ threads[t].pc = "disable"
    /\ Called("disable", nil, "", "",
              Result([session_manager EXCEPT !.store = << >>], "()", TRUE))
    /\ threads' = [threads EXCEPT ![t] = ThreadIdle]
    /\ UNCHANGED << now, threading, tasks, serverVars, minted >>

\* prune of the threading build up to the end of `collect::<Vec<Uuid>>()`:
\* the rate check, last_prune, and the ids of the sessions the filter finds
\* past a TTL
ConcPruneCollect(t) ==
    /\ threads[t].pc = "idle"
    /\ IF now - session_manager.last_prune < session_manager.prune_rate
       THEN /\ Called("prune", nil, "", "", Result(session_manager, "()", FALSE))
            /\ UNCHANGED threads
       ELSE /\ session_manager' = [session_manager EXCEPT !.last_prune = now]
            /\ threads' = [threads EXCEPT ![t] =
                   [ThreadIdle EXCEPT !.pc = "prune",
                                      !.to_remove = {id \in DOMAIN session_manager.store :
                                          Expired(session_manager, session_manager.store[id], now)}]]
            /\ call' = [NoCall EXCEPT !.op = "collect"]
    /\ UNCHANGED << now, threading, tasks, serverVars, minted >>

\* `to_remove.par_iter().for_each(|id| { self.store.remove(id); })`: one
\* remove, or the return of prune when none is left
ConcPruneRemove(t) ==
    /\ threads[t].pc = "prune"
    /\ IF threads[t].to_remove = {}
       THEN /\ Called("prune", nil, "", "", Result(session_manager, "()", FALSE))
            /\ threads' = [threads EXCEPT ![t] = ThreadIdle]
       ELSE \E id \in threads[t].to_remove :
              /\ Called("remove", id, "", "",
                        Result([session_manager EXCEPT !.store = MapRemove(@, id)], "()", TRUE))
              /\ threads' = [threads EXCEPT ![t].to_remove = @ \ {id}]
    /\ UNCHANGED << now, threading, tasks, serverVars, minted >>

\* Immortal::new, enable_sessions, listen_with in the threading build
ConcInit ==
    /\ now = 0
    /\ threading = TRUE
    /\ \E cfg \in Configs : session_manager = enable(SessionManagerNew(cfg, 0))
    /\ call = NoCall
    /\ middleware = << >>
    /\ router = RouterNew
    /\ request = NoRequest
    /\ response = NoResponse
    /\ invoked = << >>
    /\ minted = {}
    /\ threads = [t \in Threads |-> ThreadIdle]
    /\ tasks = NoTasks

ConcNext ==
    \/ \E t \in Threads : ConcAddSessionCheck(t)
    \/ \E t \in Threads : ConcAddSessionInsert(t)
    \/ \E t \in Threads : ConcCreateSessionCheck(t)
    \/ \E t \in Threads : ConcCreateSessionInsert(t)
    \/ \E t \in Threads : ConcWriteSession(t)
    \/ \E t \in Threads : ConcReadSession(t)
    \/ \E t \in Threads : ConcClearSession(t)
    \/ \E t \in Threads : ConcDeleteSession(t)
    \/ \E t \in Threads : ConcDisableStore(t)
    \/ \E t \in Threads : ConcDisableClear(t)
    \/ \E t \in Threads : ConcPruneCollect(t)
    \/ \E t \in Threads : ConcPruneRemove(t)
    \/ Tick

ConcSpec == ConcInit /\ [][ConcNext]_vars

\* --------------------------------- the prune task of the threading build
\* enable_sessions spawns a thread that runs session_prune_task and stores
\* its JoinHandle and stop flag in session_prune_task, over whatever the
\* field held: a JoinHandle that is dropped detaches its thread.
\* disable_sessions takes the field, sets the flag of the task it names and
\* joins it; the task may go through one more prune before it loads the flag.
TaskEnableSessions ==
    /\ ~tasks.dropped
    /\ Len(tasks.spawned) < MaxTasks
    /\ tasks' = [tasks EXCEPT
                   !.spawned = Append(@, [stop |-> FALSE, finished |-> FALSE]),
                   !.session_prune_task = Some(Len(tasks.spawned) + 1)]
    /\ ServerCalled("enable_sessions", enable(session_manager), "()")
    /\ UNCHANGED << now, threading, threads, serverVars, minted >>

\* disable_sessions, from Immortal::disable_sessions or from drop
DisableAndJoin(op, dropped) ==
    /\ ~tasks.dropped
    /\ tasks' = IF tasks.session_prune_task = None
                THEN [tasks EXCEPT !.dropped = dropped]
                ELSE [tasks EXCEPT !.dropped = dropped,
                                   !.session_prune_task = None,
                                   !.spawned[tasks.session_prune_task[1]] =
                                       [stop |-> TRUE, finished |-> TRUE]]
    /\ \E last_prune \in BOOLEAN :
         ServerCalled(op,
                      IF last_prune /\ tasks.session_prune_task # None
                      THEN prune(disable(session_manager), now).sm
                      ELSE disable(session_manager),
                      "()")
    /\ UNCHANGED << now, threading, threads, serverVars, minted >>

TaskDisableSessions == DisableAndJoin("disable_sessions", FALSE)

\* impl Drop for Immortal
Drop == DisableAndJoin("drop", TRUE)

\* one turn of the loop of session_prune_task in the thread spawned i-th
PruneTaskStep(i) ==
    /\ ~tasks.spawned[i].finished
    /\ IF tasks.spawned[i].stop
       THEN /\ tasks' = [tasks EXCEPT !.spawned[i].finished = TRUE]
            /\ UNCHANGED session_manager
       ELSE /\ session_manager' = prune(session_manager, now).sm
            /\ UNCHANGED tasks
    /\ UNCHANGED << now, threading, call, threads, serverVars, minted >>

\* The value configures its sessions and is dropped; until then requests of
\* the listening server bring sessions into the store.
TaskNext ==
    \/ TaskEnableSessions
    \/ TaskDisableSessions
    \/ Drop
    \/ \E i \in 1..Len(tasks.spawned) : PruneTaskStep(i)
    \/ (~tasks.dropped /\ AddSession)
    \/ Tick

\* Immortal::new in the threading build
TaskInit == Init /\ threading

TaskSpec == TaskInit /\ [][TaskNext]_vars

\* ------------------------------------------------- parsing and serializing
\* Text is a sequence of symbols: a symbol is a character, or a word whose
\* characters the code does not tell apart ("HTTP", "1.1").
\* The request lines a client may send, as they are written and as they
\* stand in the zeroed read buffer of handle_connection: any word serves as
\* a method, as a protocol other than HTTP or as a version other than 1.1.
Lines ==
    LET written == UNION {[1..n -> {" ", "/", "HTTP", "1.1"}] : n \in 0..MaxLine}
    IN written \cup {Append(line, "\\0") : line \in written}

\* a split that drops the empty parts
SplitOnSkipEmpty(s, sep) ==
    LET F[i \in 0..Len(s)] ==
            IF i = 0 THEN << << >> >>
            ELSE IF s[i] = sep THEN Append(F[i - 1], << >>)
            ELSE [F[i - 1] EXCEPT ![Len(F[i - 1])] = Append(@, s[i])]
    IN SelectSeq(F[Len(s)], LAMBDA part : part # << >>)

\* slice::split(|c| *c == sep).collect(): the parts between the separators,
\* empty ones included
SplitOn(s, sep) ==
    LET F[i \in 0..Len(s)] ==
            IF i = 0 THEN << << >> >>
            ELSE IF s[i] = sep THEN Append(F[i - 1], << >>)
            ELSE [F[i - 1] EXCEPT ![Len(F[i - 1])] = Append(@, s[i])]
    IN F[Len(s)]

\* Request::new on a buffer whose head is `line` followed by the header
\* lines `header_raw_lines` and whose body is `body`.  The lines of the
\* model hold no '?': the document is the whole second item.
Request_from_slice(line, header_raw_lines, body) ==
    LET request_line_items == SplitOn(line, " ")
        document == request_line_items[2]
        proto_version_items == SplitOn(request_line_items[3], "/")
        raw == proto_version_items[2]
        kept == {n \in 0..Len(raw) :
                    n = 0 \/ raw[n] \notin {"\r", "\n", "\\0"}}
        version == SubSeq(raw, 1, CHOOSE n \in kept : \A m \in kept : m <= n)
    IN IF Len(request_line_items) # 3 THEN Err("RequestLineMalformed")
       ELSE IF ~(Len(document) > 0 /\ document[1] = "/") THEN Err("DocumentMalformed")
       ELSE IF Len(proto_version_items) # 2 THEN Err("ProtoMalformed")
       ELSE IF proto_version_items[1] # <<"HTTP">> THEN Err("ProtoInvalid")
       ELSE IF version # <<"1.1">> THEN Err("ProtoVersionInvalid")
       ELSE [ok |-> TRUE,
             body |-> body,
             method |-> request_line_items[1],
             document |-> document,
             protocol |-> proto_version_items[1],
             version |-> version,
             header_raw_lines |-> header_raw_lines,
             headers |-> << >>,
             content_length |-> None]

\* Request::from_slice on a request line alone, as the first call
ParseRequestLine ==
    /\ call.op = "new"
    /\ \E line \in Lines :
         call' = [NoCall EXCEPT !.op = "Request::new", !.key = line,
                                 !.ret = Request_from_slice(line, << >>, None)]
    /\ UNCHANGED << session_manager, now, threading, tasks, threads, serverVars, minted >>

\* A header line `name: value` is the pair of the text before its first ": "
\* and the text behind it; a value is a sequence of symbols.
\* parse_header: the line as (key, value), unless its value is empty
parse_header(raw) == IF raw[2] = << >> THEN None ELSE Some(raw)

\* Request::header: the request after the lookup, and the value found
header(req, key) ==
    LET cached == {i \in 1..Len(req.headers) : req.headers[i][1] = key}
        lines == {i \in 1..Len(req.header_raw_lines) :
                     req.header_raw_lines[i][1] = key}
        raw == req.header_raw_lines[CHOOSE i \in lines : \A j \in lines : i <= j]
    IN IF req.header_raw_lines = << >> THEN [req |-> req, ret |-> None]
       ELSE IF cached # {}
       THEN [req |-> req,
             ret |-> Some(req.headers[CHOOSE i \in cached : \A j \in cached : i <= j][2])]
       ELSE IF lines # {} /\ parse_header(raw) # None
       THEN [req |-> [req EXCEPT !.headers = Append(@, parse_header(raw)[1])],
             ret |-> Some(parse_header(raw)[1][2])]
       ELSE [req |-> req, ret |-> None]

\* Request::content_length; str::parse::<usize> takes decimal digits
content_length(req) ==
    LET digit == ("0" :> 0) @@ ("1" :> 1) @@ ("2" :> 2) @@ ("3" :> 3) @@ ("4" :> 4)
                    @@ ("5" :> 5) @@ ("6" :> 6) @@ ("7" :> 7) @@ ("8" :> 8) @@ ("9" :> 9)
        found == header(req, "Content-Length")
        text == found.ret[1]
        value[i \in 0..Len(text)] == IF i = 0 THEN 0 ELSE 10 * value[i - 1] + digit[text[i]]
        cl == IF text # << >> /\ \A i \in 1..Len(text) : text[i] \in DOMAIN digit
              THEN Some(value[Len(text)]) ELSE None
    IN IF req.content_length # None THEN [req |-> req, ret |-> req.content_length]
       ELSE IF found.ret # None
       THEN [req |-> [found.req EXCEPT !.content_length = cl], ret |-> cl]
       ELSE [req |-> found.req, ret |-> None]

\* Request::from_slice on a buffer with header lines and maybe a body, then
\* a lookup of a header and of the content length
RequestHeader ==
    /\ call.op = "new"
    /\ LET names == {"Content-Length", "content-length", "Host"}
           values == {<< >>, <<"1">>, <<"2">>, <<"x">>}
       IN \E block \in UNION {[1..n -> names \X values] : n \in 0..MaxHeaders},
             body \in {None} \cup {Some([i \in 1..n |-> "b"]) : n \in 0..MaxBody},
             key \in names :
            LET req == Request_from_slice(<<"HTTP", " ", "/", " ", "HTTP", "/", "1.1">>,
                                          block, body)
                found == header(req, key)
            IN call' = [NoCall EXCEPT
                          !.op = "Request::header", !.key = key,
                          !.ret = [request |-> req,
                                   header |-> found.ret,
                                   content_length |-> content_length(found.req).ret]]
    /\ UNCHANGED << session_manager, now, threading, tasks, threads, serverVars, minted >>

\* In a query string "a" stands for the letters and "1" for the digits;
\* both are hexadecimal digits.
\* KVParser::consume_while: how many of the leading characters of `chars`
\* it advances over; `predicate` is the set of the characters the predicate
\* of the call is true of
consume_while(chars, predicate) ==
    CHOOSE n \in 0..Len(chars) :
        /\ \A i \in 1..n : chars[i] \in predicate
        /\ n = Len(chars) \/ chars[n + 1] \notin predicate

\* KVParser::query_kv_pair on the parser p = (chars, len_remaining): the
\* parser after the call and the pair returned.  pos_within_token is
\* len_remaining - chars.len(), and len_remaining is brought up to date by
\* reset_pos_within_token only; a slice that ends behind its string panics.
query_kv_pair(p) ==
    LET is_id_start == {"_", "-", "&", "a"}
        is_id_continue == {"_", "-", "&", "a", "1"}
        not_amp == {p.chars[i] : i \in DOMAIN p.chars} \ {"&"}
        iter == p.chars
        after_first == Tail(iter)
        after_key == SubSeq(after_first, consume_while(after_first, is_id_continue) + 1,
                            Len(after_first))
        key_len == p.len_remaining - Len(after_key)
        after_eq == Tail(after_key)
        after_val == SubSeq(after_eq, consume_while(Tail(after_eq), not_amp) + 2,
                            Len(after_eq))
        val_len == Len(after_eq) - Len(after_val)
        after_amp == IF after_val = << >> THEN << >> ELSE Tail(after_val)
        Returned(chars, len_remaining, last) ==
            [p |-> [chars |-> chars, len_remaining |-> len_remaining],
             panic |-> last > Len(iter),
             ret |-> IF last > Len(iter) THEN None
                     ELSE Some(<<SubSeq(iter, 1, key_len),
                                 SubSeq(iter, key_len + 2, last)>>)]
    IN IF iter = << >> \/ iter[1] \notin is_id_start
       THEN [p |-> p, panic |-> FALSE, ret |-> None]
       ELSE IF after_key = << >> THEN Returned(<< >>, p.len_remaining, key_len)
       ELSE IF after_key[1] # "=" THEN Returned(after_eq, p.len_remaining, key_len)
       ELSE IF after_eq = << >> THEN Returned(<< >>, 0, key_len)
       ELSE IF after_eq[1] = "&" THEN Returned(Tail(after_eq), Len(after_eq), key_len)
       ELSE Returned(after_amp, Len(after_amp), key_len + 1 + val_len)

\* parse_parameters: the map of the pairs query_kv_pair returns until it
\* returns None
parse_parameters(to_parse) ==
    LET RECURSIVE loop(_, _)
        loop(pp, params) ==
            LET r == query_kv_pair(pp)
            IN IF r.panic THEN [panic |-> TRUE, params |-> params]
               ELSE IF r.ret = None THEN [panic |-> FALSE, params |-> params]
               ELSE loop(r.p, MapInsert(params, r.ret[1][1], r.ret[1][2]))
    IN loop([chars |-> to_parse, len_remaining |-> Len(to_parse)], << >>)

\* url_decode: %HH is the byte HH, an incomplete % sequence stands as it is,
\* '+' is a space, NUL ends the input; a byte from 0x80 on that no lead byte
\* precedes is not UTF-8
url_decode(to_decode) ==
    LET from_hex == ("a" :> 10) @@ ("1" :> 1)
        byte == (<<"1", "1">> :> "\\x11") @@ (<<"1", "a">> :> "\\x1a")
                    @@ (<<"a", "1">> :> "\\xa1") @@ (<<"a", "a">> :> "\\xaa")
        n == Len(to_decode)
        build[i \in 1..n + 1] ==
            IF i > n THEN << >>
            ELSE IF to_decode[i] = "%" THEN
                IF i = n THEN <<"%">>
                ELSE IF to_decode[i + 1] \notin DOMAIN from_hex
                THEN <<"%", to_decode[i + 1]>> \o build[i + 2]
                ELSE IF i + 1 = n THEN <<"%", to_decode[i + 1]>>
                ELSE IF to_decode[i + 2] \notin DOMAIN from_hex
                THEN <<"%", to_decode[i + 1], to_decode[i + 2]>> \o build[i + 3]
                ELSE <<byte[<<to_decode[i + 1], to_decode[i + 2]>>]>> \o build[i + 3]
            ELSE IF to_decode[i] = "+" THEN <<" ">> \o build[i + 1]
            ELSE IF to_decode[i] = "\\0" THEN << >>
            ELSE <<to_decode[i]>> \o build[i + 1]
    IN [ok |-> \A i \in 1..Len(build[1]) : build[1][i] \notin {"\\xa1", "\\xaa"},
        text |-> build[1]]

\* parse_parameters on a query string
ParseParameters ==
    /\ call.op = "new"
    /\ \E query \in UNION {[1..n -> {"a", "1", "=", "&", "%"}] : n \in 0..MaxQuery} :
         call' = [NoCall EXCEPT !.op = "parse_parameters", !.key = query,
                                 !.ret = parse_parameters(query)]
    /\ UNCHANGED << session_manager, now, threading, tasks, threads, serverVars, minted >>

\* Response::serialize on the Response of a request, as Response::new built
\* it and the handlers left it: with a code, a status phrase and a body of
\* theirs, or with the defaults
Serialize ==
    /\ call.op = "new"
    /\ \E method \in Methods \cup {"head"},
          code \in {Code200, Code501, <<2, 9, 9>>, << >>},
          status \in {"OK", "", "DONE"},
          body \in {[i \in 1..n |-> "b"] : n \in 0..MaxBody},
          cookies \in {<< >>, << IdCookie(1) >>} :
         /\ response' = [body |-> body, code |-> code, status |-> status,
                         method |-> method,
                         headers |-> ("Connection" :> "close")
                                        @@ ("Content-Type" :> "text/html"),
                         cookies |-> cookies]
         /\ call' = [NoCall EXCEPT !.op = "serialize",
                                    !.ret = serialize(response', now)]
    /\ UNCHANGED << session_manager, now, threading, tasks, threads, middleware,
                    router, request, invoked, minted >>

\* request_head_body_split: the loop over the bytes keeps found_cr,
\* crlf_count and crlf_start_idx (indices from 0, as in the code) and is left
\* at the first byte it meets with crlf_count = 2
request_head_body_split(to_split) ==
    LET RECURSIVE loop(_, _, _, _)
        loop(idx, found_cr, crlf_count, crlf_start_idx) ==
            IF idx = Len(to_split) \/ crlf_count = 2
            THEN [crlf_count |-> crlf_count, crlf_start_idx |-> crlf_start_idx]
            ELSE IF to_split[idx + 1] = "\\r"
                 THEN loop(idx + 1, TRUE, crlf_count,
                           IF crlf_count = 0 THEN idx ELSE crlf_start_idx)
            ELSE IF found_cr /\ to_split[idx + 1] = "\\n"
                 THEN loop(idx + 1, FALSE, crlf_count + 1, crlf_start_idx)
            ELSE loop(idx + 1, FALSE, 0, 0)
        end == loop(0, FALSE, 0, 0)
    IN IF end.crlf_start_idx = 0 \/ end.crlf_count # 2
       THEN [head |-> to_split, body |-> None]
       ELSE [head |-> SubSeq(to_split, 1, end.crlf_start_idx),
             body |-> Some(SubSeq(to_split, end.crlf_start_idx + 5, Len(to_split)))]

\* request_head_body_split on a receive buffer of CR, LF and other bytes
HeadBodySplit ==
    /\ call.op = "new"
    /\ \E to_split \in UNION {[1..n -> {"\\r", "\\n", "a"}] : n \in 0..MaxBuffer} :
         call' = [NoCall EXCEPT !.op = "request_head_body_split", !.key = to_split,
                                 !.ret = request_head_body_split(to_split)]
    /\ UNCHANGED << session_manager, now, threading, tasks, threads, serverVars, minted >>

\* One call of a parser or of the serializer, on inputs of every shape.
PureNext ==
    \/ ParseRequestLine
    \/ RequestHeader
    \/ ParseParameters
    \/ HeadBodySplit
    \/ Serialize

PureSpec == PipelineInit /\ [][PureNext]_vars

\* ================================================================ claims
store == session_manager.store

\* a session that has passed neither TTL at instant t
Live(s, session, t) ==
    /\ t - session.created < s.session_duration
    /\ t - session.last_accessed < s.inactive_duration

\* the id the request's `id` cookie names, nil if it names none
CookieId(cookies) ==
    IF "id" \in DOMAIN cookies /\ Len(cookies["id"]) = 1 THEN cookies["id"][1] ELSE nil

\* C1: once a middleware handler has left the response a redirect, nothing
\* is invoked after it for that request: no later middleware, no route
\* handler, no fallback.
C1_RedirectShortCircuit ==
    \A i \in 1..Len(invoked) :
        (invoked[i].kind = "middleware" /\ invoked[i].redirect) => i = Len(invoked)

\* a finished request to a registered route, with two middleware handlers,
\* of which the first redirected and was the only handler invoked
C1_Witness ==
    /\ request.pc = "done"
    /\ Len(middleware) = 2
    /\ <<request.method, request.document>> \in DOMAIN router.routes
    /\ Len(invoked) = 1
    /\ invoked[1].kind = "middleware"
    /\ invoked[1].redirect

\* C2: with sessions enabled, the id Response::new yields names a session
\* of the store, so that the first handler's write_session on it succeeds.
C2_SessionRegistered ==
    /\ (call.op = "Response::new" /\ is_enabled(session_manager))
           => request.session_id \in DOMAIN store
    /\ (/\ call.op = "handler"
        /\ call.key = "write_session"
        /\ Len(invoked) = 1
        /\ is_enabled(session_manager))
           => call.ret = TRUE

\* C3: with sessions enabled, Response::new generates an id and appends
\* the `id` cookie exactly when the request's cookie names no session of
\* the store; otherwise it returns the cookie's id and appends nothing.
C3_MintIffUnknown ==
    [][(call'.op = "Response::new" /\ is_enabled(session_manager)) =>
         LET id == CookieId(request'.cookies)
             known == session_exists(session_manager, id)
         IN /\ known => /\ request'.session_id = id
                        /\ response'.cookies = << >>
                        /\ ~call'.ret
            /\ ~known => /\ call'.ret
                         /\ response'.cookies = << IdCookie(request'.session_id) >>
       ]_vars

\* C4: every id of the store is one generate_id returned.
C4_IdsServerGenerated == DOMAIN store \subseteq minted

\* C5 (as claimed): after any call of prune, every session of the store
\* has passed neither TTL.
C5_PruneSoundnessAnyCall ==
    call.op = "prune" =>
        \A id \in DOMAIN store : Live(session_manager, store[id], now)

\* C5 (amended): after a call in which the sweep ran, every session of the
\* store has passed neither TTL.
C5_PruneSoundness ==
    call.swept =>
        \A id \in DOMAIN store : Live(session_manager, store[id], now)

\* a prune whose sweep ran and removed a session that had passed a TTL
C5_Witness ==
    /\ call.op = "prune"
    /\ call.swept
    /\ DOMAIN call.removed # {}

\* C6: a prune within prune_rate of the last sweep changes nothing; with
\* the store enabled, a prune at or after prune_rate sets last_prune to now
\* and leaves exactly the sessions that have passed neither TTL.
C6_PruneRate ==
    [][call'.op = "prune" =>
         IF now - session_manager.last_prune < session_manager.prune_rate
         THEN session_manager' = session_manager
         ELSE is_enabled(session_manager) =>
                /\ session_manager'.last_prune = now
                /\ DOMAIN session_manager'.store =
                     {id \in DOMAIN store : Live(session_manager, store[id], now)}
                /\ \A id \in DOMAIN session_manager'.store :
                     session_manager'.store[id] = store[id]
       ]_vars

\* a prune that did nothing although a session that has passed a TTL is
\* still visible to session_exists
C6_Witness ==
    /\ call.op = "prune"
    /\ ~call.swept
    /\ \E id \in DOMAIN store :
         /\ ~Live(session_manager, store[id], now)
         /\ session_exists(session_manager, id)

\* C7: read_session and write_session leave `created` alone, and a sweep
\* at now - created >= session_duration removes the session, whenever it
\* was last accessed.
C7_AbsoluteTTL ==
    [][/\ call'.op \in {"read_session", "write_session"} =>
            \A id \in DOMAIN store \cap DOMAIN session_manager'.store :
                session_manager'.store[id].created = store[id].created
       /\ (call'.op = "prune" /\ call'.swept) =>
            \A id \in DOMAIN store :
                now - store[id].created >= session_manager.session_duration
                    => ~session_exists(session_manager', id)
      ]_vars

\* a sweep removed a session that was accessed at this very instant and
\* had not passed the idle TTL
C7_Witness ==
    /\ call.op = "prune"
    /\ \E id \in DOMAIN call.removed :
         /\ call.removed[id].last_accessed = now
         /\ now - call.removed[id].created >= session_manager.session_duration

\* C8: a read or write of an existing session sets last_accessed to now;
\* a sweep keeps, untouched, every session that has passed neither TTL and
\* removes every session with now - last_accessed >= inactive_duration.
C8_IdleTTL ==
    [][/\ (/\ call'.op \in {"read_session", "write_session"}
           /\ session_exists(session_manager, call'.id)) =>
              session_manager'.store[call'.id].last_accessed = now
       /\ (call'.op = "prune" /\ call'.swept) =>
            \A id \in DOMAIN store :
                IF Live(session_manager, store[id], now)
                THEN /\ session_exists(session_manager', id)
                     /\ session_manager'.store[id] = store[id]
                ELSE now - store[id].last_accessed >= session_manager.inactive_duration
                         => ~session_exists(session_manager', id)
      ]_vars

\* a sweep left a session that a read kept alive: without the access it
\* would have passed the idle TTL
C8_Witness ==
    /\ call.op = "prune"
    /\ call.swept
    /\ \E id \in DOMAIN store :
         /\ now - store[id].created >= session_manager.inactive_duration
         /\ store[id].last_accessed > store[id].last_mutated

\* the values the calls return for the nil id, and the store never holding it
NilReturns ==
    /\ nil \notin DOMAIN store
    /\ (call.id = nil /\ call.op \in {"write_session", "add_session", "session_exists"})
           => call.ret = FALSE
    /\ (call.id = nil /\ call.op = "read_session") => call.ret = None

C10_DisabledNeutral ==
    [][~is_enabled(session_manager) =>
         /\ call'.op = "create_session" => call'.ret = nil
         /\ call'.op \in {"add_session", "write_session", "session_exists"}
                => call'.ret = FALSE
         /\ call'.op \in {"read_session", "get_or_create_session"}
                => call'.ret = None
         /\ call'.op \in {"create_session", "add_session", "write_session",
                          "session_exists", "read_session", "get_or_create_session"}
                => session_manager'.store = store
      ]_vars

\* a write to a non-nil id on a store that was enabled and disabled again
C10_Witness ==
    /\ ~is_enabled(session_manager)
    /\ minted # {}
    /\ call.op = "write_session"
    /\ call.id # nil
    /\ call.value # ""
    /\ call.ret = FALSE

\* C11: disable leaves the store empty, a disabled store holds no session,
\* and enable leaves the store as it is: after an enable that follows a
\* disable no id exists and no key reads.
C11_DisableClears ==
    [][/\ call'.op = "disable" => DOMAIN session_manager'.store = {}
       /\ ~is_enabled(session_manager') => DOMAIN session_manager'.store = {}
       /\ call'.op = "enable" =>
            /\ session_manager'.store = store
            /\ ~is_enabled(session_manager) =>
                 \A id \in Uuid, key \in Keys :
                    /\ ~session_exists(session_manager', id)
                    /\ read_session(session_manager', now, id, key).ret = None
      ]_vars

\* a disable that took a session holding data out of the store
C11_Witness ==
    /\ call.op = "disable"
    /\ \E id \in DOMAIN call.removed : DOMAIN call.removed[id].data # {}

\* C12: the calls on one id take effect one at a time: an add_session that
\* returns true and a create_session insert under an id the store does not
\* hold at that moment, so that of two add_session on an absent id one
\* returns false, and neither call replaces a session that is in the store,
\* whose written values therefore stay.
C12_Linearizable ==
    [][call'.op \in {"add_session", "create_session"} =>
         /\ \A id \in DOMAIN store \cap DOMAIN session_manager'.store :
              session_manager'.store[id] = store[id]
         /\ (call'.op = "add_session" /\ call'.ret = TRUE) =>
              call'.id \notin DOMAIN store
         /\ call'.op = "create_session" => call'.id \notin DOMAIN store
      ]_vars

\* C13: a write_session, read_session or clear_session, whichever thread
\* makes it, lowers neither last_mutated nor last_accessed of a session
\* that stays in the store.
C13_ClocksMonotonic ==
    [][call'.op \in {"write_session", "read_session", "clear_session"} =>
         \A id \in DOMAIN store \cap DOMAIN session_manager'.store :
            /\ session_manager'.store[id].last_mutated >= store[id].last_mutated
            /\ session_manager'.store[id].last_accessed >= store[id].last_accessed
      ]_vars

\* a clear_session of a session that was written after it was created, at
\* a later instant still
C13_Witness ==
    /\ call.op = "clear_session"
    /\ call.id \in DOMAIN store
    /\ store[call.id].last_mutated = now
    /\ now > store[call.id].created
    /\ \E t \in Threads : threads[t].pc # "idle"

\* keys other than the ones the calls of the model write
OtherKeys == {"b"}

\* C14: on an enabled store and a non-nil id write_session returns true
\* exactly when the session exists; after a write of a non-empty value a
\* read of the key returns it, also after a write to another key; after a
\* write of the empty value the key is gone and a read returns None; and a
\* call other than write_session, clear_session, delete_session and disable
\* leaves the data of every session it leaves in the store.
C14_WriteRead ==
    [][/\ (/\ call'.op = "write_session"
           /\ is_enabled(session_manager)
           /\ call'.id # nil) =>
             /\ call'.ret = (call'.id \in DOMAIN store)
             /\ call'.ret =>
                  LET data == session_manager'.store[call'.id].data
                      read == read_session(session_manager', now, call'.id, call'.key)
                  IN /\ call'.id \in DOMAIN session_manager'.store
                     /\ IF call'.value = ""
                        THEN /\ call'.key \notin DOMAIN data
                             /\ read.ret = None
                        ELSE /\ read.ret = Some(call'.value)
                             /\ \A k \in OtherKeys, v \in Values :
                                  read_session(
                                      write_session(session_manager', now, call'.id, k, v).sm,
                                      now, call'.id, call'.key).ret = Some(call'.value)
       /\ call'.op \in {"read_session", "session_exists", "add_session", "create_session",
                        "get_or_create_session", "prune", "enable", "tick"} =>
             \A id \in DOMAIN store \cap DOMAIN session_manager'.store :
                session_manager'.store[id].data = store[id].data
       /\ (call'.op = "read_session" /\ call'.id \in DOMAIN store) =>
             call'.ret = IF call'.key \in DOMAIN store[call'.id].data
                         THEN Some(store[call'.id].data[call'.key]) ELSE None
      ]_vars

\* a read that returned the value a write stored at an earlier instant
C14_Witness ==
    /\ call.op = "read_session"
    /\ call.ret = Some("v")
    /\ call.id \in DOMAIN store
    /\ store[call.id].last_mutated < now

\* what clear_session does to a session of the store, and delete_session
\* to the id it is given
ClearKeepsDeleteRemoves ==
    /\ (call'.op = "clear_session" /\ session_exists(session_manager, call'.id)) =>
          /\ session_exists(session_manager', call'.id)
          /\ session_manager'.store[call'.id].created = store[call'.id].created
          /\ DOMAIN session_manager'.store[call'.id].data = {}
          /\ \A k \in Keys \cup OtherKeys :
                read_session(session_manager', now, call'.id, k).ret = None
          /\ \A id \in DOMAIN store \ {call'.id} :
                id \in DOMAIN session_manager'.store
                    /\ session_manager'.store[id] = store[id]
    /\ call'.op = "delete_session" => ~session_exists(session_manager', call'.id)

\* a delete_session of a non-nil id the enabled store does not hold
DeleteAbsent ==
    /\ call'.op = "delete_session"
    /\ is_enabled(session_manager)
    /\ call'.id # nil
    /\ call'.id \notin DOMAIN store

\* C15 (as claimed): clear_session empties the data of the session and
\* keeps the session and its `created`; delete_session removes the
\* session; a delete_session of an absent id changes nothing.
C15_ClearDeleteNoOp ==
    [][/\ ClearKeepsDeleteRemoves
       /\ DeleteAbsent => session_manager' = session_manager
      ]_vars

\* C15 (amended): clear_session empties the data of the session and keeps
\* the session and its `created`; delete_session removes the session; a
\* delete_session of an absent id changes nothing in the threading build
\* and otherwise at most what the prune it ends with does: last_prune set
\* to now, and sessions past a TTL removed.
C15_ClearDelete ==
    [][/\ ClearKeepsDeleteRemoves
       /\ DeleteAbsent =>
            /\ threading => session_manager' = session_manager
            /\ [session_manager' EXCEPT !.store = << >>, !.last_prune = 0]
                 = [session_manager EXCEPT !.store = << >>, !.last_prune = 0]
            /\ session_manager'.last_prune \in {session_manager.last_prune, now}
            /\ \A id \in DOMAIN session_manager'.store :
                 id \in DOMAIN store /\ session_manager'.store[id] = store[id]
            /\ \A id \in DOMAIN store \ DOMAIN session_manager'.store :
                 ~Live(session_manager, store[id], now)
      ]_vars

\* a delete_session of an id the store did not hold, whose prune swept
C15_Witness ==
    /\ call.op = "delete_session"
    /\ call.id # nil
    /\ is_enabled(session_manager)
    /\ call.swept
    /\ DOMAIN call.removed = {}
    /\ session_manager.last_prune = now
    /\ now > 0

\* C16: on an enabled store and a non-nil id, add_session returns true
\* exactly when the store does not hold the id, and then inserts a fresh
\* empty session and touches no other; when the store holds the id it
\* returns false and the session, if it is still there, is as it was (the
\* prune the call ends with may have removed it, past a TTL).
C16_AddSession ==
    [][(/\ call'.op = "add_session"
        /\ is_enabled(session_manager)
        /\ call'.id # nil) =>
          /\ call'.ret = (call'.id \notin DOMAIN store)
          /\ call'.ret =>
               /\ session_manager'.store = MapInsert(store, call'.id, SessionNew(now))
               /\ DOMAIN session_manager'.store[call'.id].data = {}
          /\ ~call'.ret =>
               IF call'.id \in DOMAIN session_manager'.store
               THEN session_manager'.store[call'.id] = store[call'.id]
               ELSE call'.swept /\ ~Live(session_manager, store[call'.id], now)
      ]_vars

\* an add_session that returned false for a session that holds data and is
\* older than this instant, and left it there
C16_Witness ==
    /\ call.op = "add_session"
    /\ call.ret = FALSE
    /\ call.id \in DOMAIN store
    /\ DOMAIN store[call.id].data # {}
    /\ store[call.id].created < now

\* C17: when no middleware has redirected the request, Router::call invokes
\* exactly one handler: the one registered under exactly the method and
\* the document of the request if there is one, otherwise the fallback,
\* which by default sets the code 501.
C17_RouterDispatch ==
    (/\ request.pc = "done"
     /\ \A i \in 1..Len(invoked) : ~invoked[i].redirect \/ invoked[i].kind # "middleware") =>
        LET called == {i \in 1..Len(invoked) : invoked[i].kind # "middleware"}
            key == <<request.method, request.document>>
            last == invoked[Len(invoked)]
        IN /\ called = {Len(invoked)}
           /\ Len(invoked) >= 1
           /\ IF key \in DOMAIN router.routes
              THEN /\ last.kind = "route"
                   /\ last.handler = router.routes[key]
              ELSE /\ last.kind = "fallback"
                   /\ last.handler = router.fallback
                   /\ router.fallback = "not_implemented" => response.code = Code501

\* a request that the fallback answered with 501 although handlers are
\* registered for its document under GET, and for GET under "/" when the
\* document is "/login"
C17_Witness ==
    /\ request.pc = "done"
    /\ request.method = "get"
    /\ request.document = "/login"
    /\ <<"GET", "/login">> \in DOMAIN router.routes
    /\ <<"GET", "/">> \in DOMAIN router.routes
    /\ Len(invoked) >= 1
    /\ invoked[Len(invoked)].kind = "fallback"
    /\ response.code = Code501

\* C18: unregister returns true exactly when a handler is registered under
\* the pair (method, route); it removes that pair and no other, so that a
\* request for the pair goes to the fallback and a second unregister of it
\* returns false; register returns true and puts its handler under the
\* pair, in the place of the one that was there.
C18_RegisterUnregister ==
    [][LET pair == <<call'.key, call'.value>>
           plain == [NoResponse EXCEPT !.code = Code200]
       IN /\ call'.op = "unregister" =>
                /\ call'.ret = (pair \in DOMAIN router.routes)
                /\ router' = [router EXCEPT !.routes = MapRemove(@, pair)]
                /\ RouterTarget(router', pair[1], pair[2], plain)
                     = Some([kind |-> "fallback", handler |-> router.fallback])
                /\ unregister(router', pair[1], pair[2]).ret = FALSE
          /\ call'.op = "register" =>
                /\ call'.ret = TRUE
                /\ router' = [router EXCEPT !.routes = MapInsert(@, pair, call'.func)]
                /\ RouterTarget(router', pair[1], pair[2], plain)
                     = Some([kind |-> "route", handler |-> call'.func])
      ]_vars

\* an unregister that returned true and left the route of the same method
\* under the other document
C18_Witness ==
    /\ call.op = "unregister"
    /\ call.ret = TRUE
    /\ \E p \in DOMAIN router.routes : p[1] = call.key /\ p[2] # call.value

\* C19: add_middleware puts its handler behind the ones added before, and
\* in a finished request that no middleware redirected every middleware
\* handler was invoked once, in that order, and the route handler or the
\* fallback after all of them.
C19_MiddlewareOrder ==
    [][/\ call'.op = "add_middleware" =>
            middleware' = Append(middleware, call'.func)
       /\ (/\ request'.pc = "done"
           /\ \A i \in 1..Len(invoked') :
                ~invoked'[i].redirect \/ invoked'[i].kind # "middleware") =>
             /\ Len(invoked') = Len(middleware') + 1
             /\ \A i \in 1..Len(middleware') :
                  /\ invoked'[i].kind = "middleware"
                  /\ invoked'[i].handler = middleware'[i]
             /\ invoked'[Len(invoked')].kind # "middleware"
      ]_vars

\* a finished request that went through two different middleware handlers
\* in the order they were added, and then through the router
C19_Witness ==
    /\ request.pc = "done"
    /\ Len(middleware) = 2
    /\ middleware[1] = "h2"
    /\ middleware[2] = "h1"
    /\ Len(invoked) = 3
    /\ invoked[1] = [kind |-> "middleware", handler |-> "h2", redirect |-> FALSE]
    /\ invoked[2] = [kind |-> "middleware", handler |-> "h1", redirect |-> FALSE]
    /\ invoked[3].kind # "middleware"

\* the variants of RequestError with which Request::new rejects a buffer
ParseErrors ==
    {"RequestLineMalformed", "DocumentMalformed", "ProtoMalformed",
     "ProtoInvalid", "ProtoVersionInvalid"}

\* C20: both entry points answer a request that Request::new rejects with
\* ProtoVersionInvalid with the code 505, and one it rejects with another
\* variant with the code 400.
C20_ParseFailureStatus ==
    (call.op \in {"handle_connection", "process_buffer"} /\ call.key \in ParseErrors) =>
        response.code = IF call.key = "ProtoVersionInvalid" THEN Code505 ELSE Code400

\* C21: when Request::new rejects the request, either entry point invokes no
\* middleware, route handler or fallback, leaves the session manager and
\* every session of the store as they were, and sends a response without a
\* Set-Cookie header, whether sessions are enabled or not.
C21_ParseFailureInert ==
    [][(call'.op \in {"handle_connection", "process_buffer"} /\ call'.key \in ParseErrors) =>
         /\ invoked' = << >>
         /\ session_manager' = session_manager
         /\ minted' = minted
         /\ response'.cookies = << >>
         /\ "Set-Cookie" \notin DOMAIN serialize(response', now').headers]_vars

\* a request is rejected while sessions are enabled, the store holds a
\* session and a middleware handler is installed
C21_Witness ==
    /\ call.op \in {"handle_connection", "process_buffer"}
    /\ call.key \in ParseErrors
    /\ is_enabled(session_manager)
    /\ DOMAIN session_manager.store # {}
    /\ Len(middleware) > 0

\* C22: in the threading build, once the Immortal value has been dropped,
\* after any sequence of enable_sessions and disable_sessions calls, sessions
\* are disabled, the store is empty and every prune task the value spawned
\* has been stopped and joined.
C22_DropStopsPruneTasks ==
    tasks.dropped =>
        /\ ~is_enabled(session_manager)
        /\ store = << >>
        /\ \A i \in 1..Len(tasks.spawned) :
             tasks.spawned[i].stop /\ tasks.spawned[i].finished

\* What C26 says of a request line, read off the line itself: the positions
\* of its spaces, the symbol after the first one, the text after the second
\* one up to its first '/' and the text behind that.  `malformed` tells
\* whether a third part that does not hold exactly one '/' is a variant of
\* its own, and `trimmed` whether NULs at the end of the version count.
LineVerdict(line, malformed, trimmed) ==
    LET spaces == {i \in 1..Len(line) : line[i] = " "}
        s1 == CHOOSE i \in spaces : \A j \in spaces : i <= j
        s2 == CHOOSE i \in spaces : \A j \in spaces : j <= i
        slashes == {i \in s2 + 1..Len(line) : line[i] = "/"}
        slash == IF slashes = {} THEN Len(line) + 1
                 ELSE CHOOSE i \in slashes : \A j \in slashes : i <= j
        last == IF trimmed /\ Len(line) > slash /\ line[Len(line)] = "\\0"
                THEN Len(line) - 1 ELSE Len(line)
    IN IF Cardinality(spaces) # 2 THEN "RequestLineMalformed"
       ELSE IF ~(s1 + 1 < s2 /\ line[s1 + 1] = "/") THEN "DocumentMalformed"
       ELSE IF malformed /\ Cardinality(slashes) # 1 THEN "ProtoMalformed"
       ELSE IF SubSeq(line, s2 + 1, slash - 1) # <<"HTTP">> THEN "ProtoInvalid"
       ELSE IF SubSeq(line, slash + 1, last) # <<"1.1">> THEN "ProtoVersionInvalid"
       ELSE "Ok"

ParseVerdict(r) == IF r.ok THEN "Ok" ELSE r.err

\* C26 as written: parsing a request line succeeds only if it splits on
\* single spaces into exactly three parts, the document begins with '/', the
\* protocol is HTTP and the version is 1.1; otherwise it fails with
\* RequestLineMalformed, DocumentMalformed, ProtoInvalid or
\* ProtoVersionInvalid, the first failing check naming the variant.
C26_RequestLineFourChecks ==
    call.op = "Request::new" =>
        ParseVerdict(call.ret) = LineVerdict(call.key, FALSE, FALSE)

\* C26, amended: between the document and the protocol, a third part that
\* does not split on '/' into exactly two items fails with ProtoMalformed,
\* and the version is compared after the NULs at its end are trimmed.
C26_RequestLineChecks ==
    call.op = "Request::new" =>
        ParseVerdict(call.ret) = LineVerdict(call.key, TRUE, TRUE)

\* a line that passes every check, read from a zeroed buffer
C26_Witness ==
    /\ call.op = "Request::new"
    /\ call.ret.ok
    /\ call.key[Len(call.key)] = "\\0"

\* C23: a request that Request::new has parsed, whose Content-Length header
\* parses to N and which has a body, has a body of exactly N bytes (any
\* other body length having failed with ContentLengthDiscrepancy).
C23_BodyLength ==
    (/\ call.op = "Request::header"
     /\ call.ret.request.ok
     /\ call.ret.request.body # None
     /\ call.ret.content_length # None)
        => Len(call.ret.request.body[1]) = call.ret.content_length[1]

\* header names without regard to letter case
Casefold(name) ==
    IF name \in {"Content-Length", "content-length"} THEN "content-length" ELSE "host"

\* C24: when a request carries one header whose name differs from the lookup
\* key in letter case at most, and the header has a value, header(key)
\* returns that value.
C24_HeaderCaseInsensitive ==
    call.op = "Request::header" =>
        LET lines == call.ret.request.header_raw_lines
            sent == {i \in 1..Len(lines) : Casefold(lines[i][1]) = Casefold(call.key)}
        IN \A i \in sent :
             (sent = {i} /\ lines[i][2] # << >>) => call.ret.header = Some(lines[i][2])

\* The pairs of a query string as C27 and C30 read them: the parts between
\* the '&', each with the name before its first '=' and the value behind it.
QueryPairs(query) ==
    LET parts == SplitOn(query, "&")
        Eq(part) == {i \in 1..Len(part) : part[i] = "="}
        First(part) == IF Eq(part) = {} THEN Len(part) + 1
                       ELSE CHOOSE i \in Eq(part) : \A j \in Eq(part) : i <= j
    IN [i \in 1..Len(parts) |->
          [has_value |-> Eq(parts[i]) # {},
           name |-> SubSeq(parts[i], 1, First(parts[i]) - 1),
           value |-> SubSeq(parts[i], First(parts[i]) + 1, Len(parts[i]))]]

\* is_param_name_valid on the symbols of a query string
NameValid(name) ==
    /\ name # << >>
    /\ name[1] # "1"
    /\ \A i \in 1..Len(name) : name[i] \in {"a", "1", "-", "_"}

WellFormed(pair) == pair.has_value /\ NameValid(pair.name)

\* C27: for a string of name=value pairs joined by '&' whose names are
\* valid, every pair is in the result under its name, and a name that occurs
\* once has the pair's value percent-decoded, '=' after the first one kept.
C27_ParametersDecoded ==
    call.op = "parse_parameters" =>
        LET pairs == QueryPairs(call.key)
        IN (\A i \in DOMAIN pairs : WellFormed(pairs[i])) =>
              /\ ~call.ret.panic
              /\ \A i \in DOMAIN pairs :
                   /\ pairs[i].name \in DOMAIN call.ret.params
                   /\ (/\ \A j \in DOMAIN pairs : pairs[j].name = pairs[i].name => j = i
                       /\ url_decode(pairs[i].value).ok)
                        => call.ret.params[pairs[i].name] = url_decode(pairs[i].value).text

\* C30: a pair whose name is empty or not a valid name is skipped: the parse
\* goes on, and every well-formed pair before or behind it is in the result.
C30_MalformedPairSkipped ==
    call.op = "parse_parameters" =>
        LET pairs == QueryPairs(call.key)
        IN (\E i \in DOMAIN pairs : ~NameValid(pairs[i].name)) =>
              /\ ~call.ret.panic
              /\ \A i \in DOMAIN pairs :
                   WellFormed(pairs[i]) => pairs[i].name \in DOMAIN call.ret.params

\* C25: serialize of a response whose method is HEAD emits Content-Length: 0
\* before the terminator and no body byte behind it, whatever the body holds;
\* for any other method the Content-Length it emits is the number of body
\* bytes it emits behind the terminator.
C25_HeadSuppression ==
    call.op = "serialize" =>
        IF response.method = "HEAD"
        THEN call.ret.content_length = 0 /\ call.ret.body = << >>
        ELSE /\ call.ret.content_length = Len(call.ret.body)
             /\ call.ret.status_line[2] = response.code => call.ret.body = response.body

\* a HEAD response whose handler wrote a body is serialized
C25_Witness ==
    /\ call.op = "serialize"
    /\ response.method = "HEAD"
    /\ response.body # << >>

\* C28: serialize of a response whose code the handler set to a value absent
\* from the status table, the status phrase being the one Response::new set,
\* emits the status line HTTP/1.1 500 INTERNAL SERVER ERROR, the 500 HTML as
\* the body and Content-Type: text/html.
C28_UnmappedCodePromoted ==
    (/\ call.op = "serialize"
     /\ response.code # << >>
     /\ response.code \notin DOMAIN STATUSES
     /\ response.status = "OK")
        => /\ call.ret.status_line = <<"HTTP/1.1", Code500, "INTERNAL SERVER ERROR">>
           /\ call.ret.headers["Content-Type"] = "text/html"
           /\ response.method # "HEAD" => call.ret.body = Html500

\* a response with a 3xx code and a Location header
Redirecting(resp) ==
    /\ Len(resp.code) > 0
    /\ resp.code[1] = 3
    /\ "Location" \in DOMAIN resp.headers

\* C29: is_redirect is true exactly of a response whose code starts with '3'
\* and that has a Location header; while the response is not such a one the
\* pipeline goes on to its next handler (the next middleware, else the route
\* or the fallback); and after a handler has called Context::redirect
\* is_redirect is true, whatever the response was before (the default
\* fallback never calls it).
C29_Redirect ==
    [][/\ call'.op = "handler" =>
            /\ Response_is_redirect(response') <=> Redirecting(response')
            /\ is_redirect(response') <=> Redirecting(response')
            /\ (call'.key = "redirect"
                  /\ invoked'[Len(invoked')].handler # "not_implemented") =>
                    Response_is_redirect(response')
       /\ (request.pc = "middleware" /\ ~Redirecting(response)) =>
            /\ Len(invoked') = Len(invoked) + 1
            /\ request.next <= Len(middleware) =>
                 /\ invoked'[Len(invoked')].kind = "middleware"
                 /\ invoked'[Len(invoked')].handler = middleware[request.next]
            /\ request.next > Len(middleware) =>
                 invoked'[Len(invoked')].kind \in {"route", "fallback"}
      ]_<< request, response, invoked >>

\* a first handler has set the code 301 alone, the pipeline went on, and
\* the second handler has set Location: the response is a redirect now
C29_Witness ==
    /\ call.op = "handler"
    /\ call.key = "location"
    /\ Len(invoked) = 2
    /\ response.code = Code301
    /\ Response_is_redirect(response)


\* C31: every parameter name in the map parse_parameters returns, for any
\* input string, satisfies is_param_name_valid: it is not empty, does not
\* start with a digit and has only letters, digits, '_' and '-'.
C31_ParameterNamesValid ==
    call.op = "parse_parameters" =>
        \A name \in DOMAIN call.ret.params : NameValid(name)


\* the offsets (from 0) at which CR LF CR LF occurs in a byte string
Terminators(bytes) ==
    {i \in 0..(Len(bytes) - 4) : SubSeq(bytes, i + 1, i + 4) = <<"\\r", "\\n", "\\r", "\\n">>}

\* C32: for every byte string request_head_body_split returns (input, None)
\* exactly when the input holds no CR LF CR LF, and otherwise (head,
\* Some(body)) with the split at the first CR LF CR LF, so that head, the
\* terminator and body make up the input; a run that is not two
\* consecutive CRLFs is never taken for the terminator.
C32_HeadBodySplit ==
    call.op = "request_head_body_split" =>
        LET at == Terminators(call.key)
            first == CHOOSE i \in at : \A j \in at : i <= j
        IN IF at = {}
           THEN call.ret = [head |-> call.key, body |-> None]
           ELSE /\ call.ret.head = SubSeq(call.key, 1, first)
                /\ call.ret.body = Some(SubSeq(call.key, first + 5, Len(call.key)))

C34_ClockOrder ==
    \A id \in DOMAIN store :
        /\ store[id].created <= store[id].last_mutated
        /\ store[id].last_mutated <= store[id].last_accessed

\* a session written at a later instant than it was created at, and one
\* read at a later instant than it was last written at
C34_Witness ==
    /\ call.op \in {"write_session", "clear_session", "read_session"}
    /\ call.id \in DOMAIN store
    /\ store[call.id].created < store[call.id].last_accessed
    /\ call.op = "read_session" => store[call.id].last_mutated < store[call.id].last_accessed
    /\ call.op # "read_session" => store[call.id].created < store[call.id].last_mutated

\* C35: whenever is_enabled is false and no thread is inside a call on the
\* store, the store is empty: no interleaving of disable with a concurrent
\* create_session or add_session leaves a session in a disabled store.
C35_DisabledStoreEmpty ==
    (~is_enabled(session_manager) /\ \A t \in Threads : threads[t].pc = "idle")
        => DOMAIN store = {}

\* C36: a sweep removes only sessions that are past a TTL at the moment it
\* removes them: a session that another thread has read or written, or
\* deleted and added again, since the sweep collected its id, stays.
C36_SweepRemovesExpired ==
    [][call'.op = "remove" =>
         \A id \in DOMAIN store \ DOMAIN session_manager'.store :
             Expired(session_manager, store[id], now)
      ]_<< session_manager, call.op, call.id >>

\* a session that is past a TTL at instant t
PastTTL(s, session, t) ==
    \/ t - session.last_accessed >= s.inactive_duration
    \/ t - session.created >= s.session_duration

\* the value a call returns for a session the store does not hold
Neutral(c) ==
    /\ c.op = "read_session" => c.ret = None
    /\ c.op \in {"write_session", "session_exists"} => c.ret = FALSE

\* C37 (as claimed): a session that has passed a TTL is dead to clients
\* even before a sweep: read_session returns none of its data, write_session
\* and session_exists return false, and no read or write revives it.
C37_ExpiredDead ==
    [][(/\ call'.op \in {"read_session", "write_session", "session_exists"}
        /\ call'.id \in DOMAIN store
        /\ PastTTL(session_manager, store[call'.id], now)) =>
            /\ Neutral(call')
            /\ call'.id \in DOMAIN session_manager'.store =>
                  PastTTL(session_manager', session_manager'.store[call'.id], now')
      ]_<< session_manager, call.op, call.id, now >>

\* C37 (amended): a sweep removes every session that is past a TTL, and a
\* session the store no longer holds is dead to clients: read_session
\* returns None, write_session and session_exists return false, and the
\* call does not bring it back.  A read or write before the sweep leaves a
\* session past the absolute TTL past it.
C37_ExpiredDeadOnceSwept ==
    [][/\ call'.swept =>
            \A id \in DOMAIN store :
                PastTTL(session_manager, store[id], now)
                    => id \notin DOMAIN session_manager'.store
       /\ (/\ call'.op \in {"read_session", "write_session", "session_exists"}
           /\ call'.id \notin DOMAIN store) =>
                /\ Neutral(call')
                /\ call'.id \notin DOMAIN session_manager'.store
       /\ (/\ call'.op \in {"read_session", "write_session"}
           /\ call'.id \in DOMAIN store
           /\ now - store[call'.id].created >= session_manager.session_duration) =>
                /\ call'.id \in DOMAIN session_manager'.store
                /\ now' - session_manager'.store[call'.id].created
                      >= session_manager'.session_duration
      ]_<< session_manager, call.op, call.id, now >>

\* a sweep has removed a session past a TTL, and the store, still enabled,
\* no longer holds it
C37_Witness ==
    /\ call.swept
    /\ is_enabled(session_manager)
    /\ \E id \in DOMAIN call.removed :
         /\ PastTTL(session_manager, call.removed[id], now)
         /\ id \notin DOMAIN store

\* C38: session_exists and is_enabled leave the manager as it is: the
\* store, and in it every session's last_accessed and last_mutated, so that
\* polling session_exists never extends a session's idle TTL.
C38_QueriesChangeNothing ==
    [][call'.op \in {"session_exists", "is_enabled"} =>
            session_manager' = session_manager
      ]_<< session_manager, call.op, call.id >>

\* session_exists has found a session that was last accessed at an earlier
\* instant
C38_Witness ==
    /\ call.op = "session_exists"
    /\ call.ret = TRUE
    /\ store[call.id].last_accessed < now

\* C39: register(method, path, h) and unregister(method, path) change the
\* entry of exactly (method, path): every other route, those of the same
\* method under another path among them, stays registered with its
\* handler, none appears, and the fallback stays.
C39_RegisterFrame ==
    [][call'.op \in {"register", "unregister"} =>
         /\ router'.fallback = router.fallback
         /\ \A p \in (DOMAIN router.routes \cup DOMAIN router'.routes)
                      \ {<<call'.key, call'.value>>} :
                /\ p \in DOMAIN router.routes
                /\ p \in DOMAIN router'.routes
                /\ router'.routes[p] = router.routes[p]
      ]_<< router, call.op, call.key, call.value >>

\* a register under a method that has a route under another path, which is
\* still there
C39_Witness ==
    /\ call.op = "register"
    /\ \E p \in DOMAIN router.routes : p[1] = call.key /\ p[2] # call.value

====
